---- MODULE Spec2Model ----
(***************************************************************************)
(* Model of the gba-emu core: the ARM7TDMI Thumb interpreter               *)
(* (src/core/cpu/arm7tdmi.cpp), the MMU address decoder and width layer    *)
(* (src/core/mmu/mmu.cpp, mmu.h) and the I/O register block                *)
(* (src/core/io/io.h).                                                     *)
(*                                                                         *)
(* A u32 is a record [hi, lo] of two 16-bit halves (value hi*2^16 + lo):   *)
(* TLC's integers are 32-bit signed, so a 32-bit unsigned value and the    *)
(* 33-bit sum of two of them are kept in halves and every operation wraps  *)
(* explicitly.  u8 and u16 values and array offsets are plain naturals.    *)
(***************************************************************************)
EXTENDS Integers, Sequences, FiniteSets, TLC

VARIABLES
    regs_,      \* ARM7TDMI::regs_  : 0..15 -> u32
    cpsr_,      \* ARM7TDMI::cpsr_  : u32
    mmu_,       \* Bus::mmu_        : the MMU's backing stores and the I/O block
    fixture,    \* the name of the test fixture being run (fixed in a run)
    ip,         \* the fixture's position in its script of set-up calls
    nsteps,     \* number of step() calls made so far
    last        \* history: the last call made and the state it started from

vars == <<regs_, cpsr_, mmu_, fixture, ip, nsteps, last>>

----------------------------------------------------------------------------
(* 32-bit unsigned arithmetic on halves *)

Half == 256 * 256

W(h, l) == [hi |-> h, lo |-> l]

\* u32 conversion of a small natural (an immediate, a size): n < 2^31
U32(n) == W(n \div Half, n % Half)

\* the natural a u32 denotes, for values below 2^31 (array offsets)
Off(w) == w.hi * Half + w.lo

RECURSIVE Pow2(_)
Pow2(n) == IF n = 0 THEN 1 ELSE 2 * Pow2(n - 1)

RECURSIVE BitAnd(_, _)
BitAnd(x, y) ==
    IF x = 0 \/ y = 0 THEN 0
    ELSE (IF x % 2 = 1 /\ y % 2 = 1 THEN 1 ELSE 0) + 2 * BitAnd(x \div 2, y \div 2)

RECURSIVE BitOr(_, _)
BitOr(x, y) ==
    IF x = 0 THEN y
    ELSE IF y = 0 THEN x
    ELSE (IF x % 2 = 1 \/ y % 2 = 1 THEN 1 ELSE 0) + 2 * BitOr(x \div 2, y \div 2)

RECURSIVE BitXor(_, _)
BitXor(x, y) ==
    IF x = 0 THEN y
    ELSE IF y = 0 THEN x
    ELSE (IF x % 2 # y % 2 THEN 1 ELSE 0) + 2 * BitXor(x \div 2, y \div 2)

And32(a, b) == W(BitAnd(a.hi, b.hi), BitAnd(a.lo, b.lo))
Or32(a, b)  == W(BitOr(a.hi, b.hi), BitOr(a.lo, b.lo))
Xor32(a, b) == W(BitXor(a.hi, b.hi), BitXor(a.lo, b.lo))
Not32(a)    == W(Half - 1 - a.hi, Half - 1 - a.lo)

\* a + b, wrapped to 32 bits
Add32(a, b) ==
    LET lo == a.lo + b.lo
        hi == a.hi + b.hi + (lo \div Half)
    IN  W(hi % Half, lo % Half)

\* a - b, wrapped to 32 bits
Sub32(a, b) ==
    LET lo == a.lo - b.lo
        borrow == IF lo < 0 THEN 1 ELSE 0
        hi == a.hi - b.hi - borrow
    IN  W((hi + Half) % Half, (lo + Half) % Half)

\* unsigned comparison
Ult(a, b) == a.hi < b.hi \/ (a.hi = b.hi /\ a.lo < b.lo)
Uge(a, b) == ~Ult(a, b)

\* value >> n and value << n on 32 bits, 0 <= n <= 31
Shr32(w, n) ==
    IF n >= 16
    THEN W(0, w.hi \div Pow2(n - 16))
    ELSE W(w.hi \div Pow2(n), (w.lo \div Pow2(n)) + (w.hi % Pow2(n)) * Pow2(16 - n))

Shl32(w, n) ==
    IF n >= 16
    THEN W((w.lo * Pow2(n - 16)) % Half, 0)
    ELSE W(((w.hi * Pow2(n)) % Half) + (w.lo \div Pow2(16 - n)), (w.lo * Pow2(n)) % Half)

----------------------------------------------------------------------------
(* MMU: region bases, sizes and windows (mmu.h) *)

BIOS_BASE  == W(0, 0)
BIOS_SIZE  == U32(16384)
EWRAM_BASE == W(512, 0)
EWRAM_SIZE == U32(262144)
IWRAM_BASE == W(768, 0)
IWRAM_SIZE == U32(32768)
IO_BASE    == W(1024, 0)
IO_SIZE    == U32(1024)
PAL_BASE   == W(1280, 0)
PAL_SIZE   == U32(1024)
VRAM_BASE  == W(1536, 0)
VRAM_SIZE  == U32(98304)
OAM_BASE   == W(1792, 0)
OAM_SIZE   == U32(1024)
WS0_BASE   == W(2048, 0)
WS1_BASE   == W(2560, 0)
WS2_BASE   == W(3072, 0)
WS_REGION_SIZE_32MiB == W(512, 0)
kWindow16MiB      == W(256, 0)
kVRAMWindow128KiB == W(2, 0)
kOpenBus == 255

\* A backing array is kept sparse: a function from the offsets holding a
\* non-zero byte to that byte; every other cell of the array holds 0.
ZeroStore == [x \in {} |-> 0]

Cell(store, off) == IF off \in DOMAIN store THEN store[off] ELSE 0

Put(store, off, value) ==
    LET dom == IF value = 0 THEN DOMAIN store \ {off} ELSE DOMAIN store \cup {off}
    IN  [x \in dom |-> IF x = off THEN value ELSE store[x]]

\* a variant whose upper bound is twice the size
in_doubled(addr, base, size) == Uge(addr, base) /\ Ult(addr, Add32(base, Add32(size, size)))

in(addr, base, size) == Uge(addr, base) /\ Ult(addr, Add32(base, size))

in_window(addr, base, window) == Uge(addr, base) /\ Ult(addr, Add32(base, window))

in_any_ws(addr) ==
    \/ (Uge(addr, WS0_BASE) /\ Ult(addr, Add32(WS0_BASE, WS_REGION_SIZE_32MiB)))
    \/ (Uge(addr, WS1_BASE) /\ Ult(addr, Add32(WS1_BASE, WS_REGION_SIZE_32MiB)))
    \/ (Uge(addr, WS2_BASE) /\ Ult(addr, Add32(WS2_BASE, WS_REGION_SIZE_32MiB)))

\* a variant that measures every cartridge address from the first window
ws_base_of_first(addr) == WS0_BASE

ws_base_of(addr) ==
    IF Uge(addr, WS2_BASE) THEN WS2_BASE
    ELSE IF Uge(addr, WS1_BASE) THEN WS1_BASE
    ELSE WS0_BASE

\* a variant in which the window's tail mirrors the last 32 KiB of the store
vram_offset_tail(addr) ==
    LET off == Sub32(addr, VRAM_BASE)
    IN  Off(IF Ult(off, VRAM_SIZE) THEN off ELSE Sub32(off, U32(32768)))

vram_offset(addr) ==
    LET off == Sub32(addr, VRAM_BASE)
    IN  Off(IF Ult(off, VRAM_SIZE) THEN off ELSE Sub32(off, VRAM_SIZE))

\* a variant that takes the palette's mirror period to be 2 KiB
pal_offset_wide(addr) ==
    Off(And32(Sub32(addr, PAL_BASE), Sub32(Add32(PAL_SIZE, PAL_SIZE), U32(1))))

pal_offset(addr) == Off(And32(Sub32(addr, PAL_BASE), Sub32(PAL_SIZE, U32(1))))

\* a variant without the mask: every address of the block has its own cell
oam_offset_plain(addr) == Off(Sub32(addr, OAM_BASE))

oam_offset(addr) == Off(And32(Sub32(addr, OAM_BASE), Sub32(OAM_SIZE, U32(1))))

\* a variant that reduces the address itself, not its offset in the window
gamepak_index_abs(m, addr) ==
    IF Len(m.gamepak_) = 0 THEN 0
    ELSE Off(addr) % Len(m.gamepak_)

\* a variant that does not reduce the offset by the image's length
gamepak_index_raw(m, addr) ==
    IF Len(m.gamepak_) = 0 THEN 0
    ELSE Off(Sub32(addr, ws_base_of(addr)))

\* gamepak_ is a sequence of bytes; the index returned is 0-based as in the code
gamepak_index(m, addr) ==
    IF Len(m.gamepak_) = 0 THEN 0
    ELSE LET regionBase == ws_base_of(addr)
             regionOffest == Sub32(addr, regionBase)
             romSize == Len(m.gamepak_)
         IN  Off(regionOffest) % romSize

----------------------------------------------------------------------------
(* IORegs (io.h) *)

kOffDISPSTAT == 4
kOffVCOUNT == 6
kVisibleLines == 160
kDispstatLycShift == 8
kDispstatLycMask == 65280
kWritableMask == 65336     \* bits 3,4,5 and 15..8 : 0xFF38

\* reset() clears raw_ and vcount_ only
IO_reset(io) == [io EXCEPT !.raw_ = ZeroStore, !.vcount_ = 0]

\* a freshly constructed IORegs (member initialisers)
IO_constructed == [raw_ |-> ZeroStore, vcount_ |-> 0, hblank_ |-> FALSE, dispstat_shadow_ |-> 0]

\* a variant whose VBlank flag starts one line late
composed_dispstat_late(io) ==
    LET writable == BitAnd(io.dispstat_shadow_, kWritableMask)
        inVBlank == io.vcount_ > kVisibleLines
        lyc == BitAnd(io.dispstat_shadow_, kDispstatLycMask) \div Pow2(kDispstatLycShift)
        vcountMatches == io.vcount_ = lyc
        c1 == IF inVBlank THEN BitOr(writable, 1) ELSE writable
        c2 == IF io.hblank_ THEN BitOr(c1, 2) ELSE c1
    IN  IF vcountMatches THEN BitOr(c2, 4) ELSE c2

composed_dispstat(io) ==
    LET writable == BitAnd(io.dispstat_shadow_, kWritableMask)
        inVBlank == io.vcount_ >= kVisibleLines
        lyc == BitAnd(io.dispstat_shadow_, kDispstatLycMask) \div Pow2(kDispstatLycShift)
        vcountMatches == io.vcount_ = lyc
        c1 == IF inVBlank THEN BitOr(writable, 1) ELSE writable
        c2 == IF io.hblank_ THEN BitOr(c1, 2) ELSE c1
    IN  IF vcountMatches THEN BitOr(c2, 4) ELSE c2

write16_dispstat(io, value) ==
    [io EXCEPT !.dispstat_shadow_ =
        BitOr(BitAnd(io.dispstat_shadow_, 65535 - kWritableMask), BitAnd(value, kWritableMask))]

IO_read8(io, offset) ==
    IF offset = kOffVCOUNT THEN io.vcount_ % 256
    ELSE IF offset = kOffVCOUNT + 1 THEN (io.vcount_ \div 256) % 256
    ELSE IF offset = kOffDISPSTAT \/ offset = kOffDISPSTAT + 1
         THEN LET disp == composed_dispstat(io)
                  high == offset = kOffDISPSTAT + 1
              IN  (IF high THEN disp \div 256 ELSE disp) % 256
    ELSE Cell(io.raw_, offset)

\* a variant that lets a write to the low byte of VCOUNT through
IO_write8_open(io, offset, value) ==
    IF offset = kOffVCOUNT THEN [io EXCEPT !.vcount_ = (io.vcount_ \div 256) * 256 + value]
    ELSE IF offset = kOffVCOUNT + 1 THEN io
    ELSE IF offset = kOffDISPSTAT \/ offset = kOffDISPSTAT + 1
         THEN LET high == offset = kOffDISPSTAT + 1
                  current == io.dispstat_shadow_
                  merged == IF high THEN BitOr(BitAnd(current, 255), value * 256)
                                    ELSE BitOr(BitAnd(current, 65280), value)
              IN  write16_dispstat(io, merged)
    ELSE [io EXCEPT !.raw_ = Put(io.raw_, offset, value)]

IO_write8(io, offset, value) ==
    IF offset = kOffVCOUNT \/ offset = kOffVCOUNT + 1 THEN io
    ELSE IF offset = kOffDISPSTAT \/ offset = kOffDISPSTAT + 1
         THEN LET high == offset = kOffDISPSTAT + 1
                  current == io.dispstat_shadow_
                  merged == IF high THEN BitOr(BitAnd(current, 255), value * 256)
                                    ELSE BitOr(BitAnd(current, 65280), value)
              IN  write16_dispstat(io, merged)
    ELSE [io EXCEPT !.raw_ = Put(io.raw_, offset, value)]

\* the hooks the PPU/scheduler will use
debug_set_vcount_for_tests(io, scanline) == [io EXCEPT !.vcount_ = scanline]
debug_set_hblank_for_tests(io, hblank) == [io EXCEPT !.hblank_ = hblank]

----------------------------------------------------------------------------
(* MMU (mmu.cpp) *)

\* a freshly constructed MMU (member initialisers)
MMU_constructed ==
    [bios_loaded_ |-> FALSE, bios_ |-> ZeroStore, ewram_ |-> ZeroStore,
     iwram_ |-> ZeroStore, io_ |-> IO_constructed, pal_ |-> ZeroStore,
     vram_ |-> ZeroStore, oam_ |-> ZeroStore, gamepak_ |-> <<>>]

\* a variant that keeps the cartridge image across a reset
reset_keep_rom(m) ==
    [m EXCEPT !.bios_loaded_ = FALSE, !.bios_ = ZeroStore, !.ewram_ = ZeroStore,
              !.iwram_ = ZeroStore, !.io_ = IO_reset(m.io_), !.pal_ = ZeroStore,
              !.vram_ = ZeroStore, !.oam_ = ZeroStore]

reset(m) ==
    [m EXCEPT !.bios_loaded_ = FALSE, !.bios_ = ZeroStore, !.ewram_ = ZeroStore,
              !.iwram_ = ZeroStore, !.io_ = IO_reset(m.io_), !.pal_ = ZeroStore,
              !.vram_ = ZeroStore, !.oam_ = ZeroStore, !.gamepak_ = <<>>]

\* load_bios(file): a file is [ok, bytes]; ok is whether the stream opens.
\* At most BIOS_SIZE bytes are read; the bytes read replace the head of bios_
\* and the tail is zeroed, so the whole store is the file's prefix.
load_bios(m, file) ==
    IF ~file.ok THEN m
    ELSE LET got == IF Len(file.bytes) < Off(BIOS_SIZE) THEN Len(file.bytes)
                    ELSE Off(BIOS_SIZE)
         IN  [m EXCEPT !.bios_ = [x \in {i \in 0..(got - 1) : file.bytes[i + 1] # 0}
                                      |-> file.bytes[x + 1]],
                       !.bios_loaded_ = TRUE]

\* load_gamepak(std::span<const u8> bytes)
load_gamepak(m, bytes) == [m EXCEPT !.gamepak_ = bytes]

\* a variant that reads the firmware store whether or not firmware is loaded
read8_noflag(m, addr) ==
    IF in(addr, BIOS_BASE, BIOS_SIZE)
    THEN Cell(m.bios_, Off(Sub32(addr, BIOS_BASE)))
    ELSE IF in(addr, EWRAM_BASE, EWRAM_SIZE)
    THEN Cell(m.ewram_, Off(Sub32(addr, EWRAM_BASE)))
    ELSE IF in(addr, IWRAM_BASE, IWRAM_SIZE)
    THEN Cell(m.iwram_, Off(Sub32(addr, IWRAM_BASE)))
    ELSE IF in(addr, IO_BASE, IO_SIZE)
    THEN IO_read8(m.io_, Off(Sub32(addr, IO_BASE)))
    ELSE IF in_window(addr, PAL_BASE, kWindow16MiB)
    THEN Cell(m.pal_, pal_offset(addr))
    ELSE IF in_window(addr, VRAM_BASE, kVRAMWindow128KiB)
    THEN Cell(m.vram_, vram_offset(addr))
    ELSE IF in_window(addr, OAM_BASE, kWindow16MiB)
    THEN Cell(m.oam_, oam_offset(addr))
    ELSE IF in_any_ws(addr)
    THEN IF Len(m.gamepak_) = 0 THEN kOpenBus
         ELSE m.gamepak_[gamepak_index(m, addr) + 1]
    ELSE kOpenBus

read8(m, addr) ==
    IF in(addr, BIOS_BASE, BIOS_SIZE)
    THEN LET idx == Off(Sub32(addr, BIOS_BASE))
         IN  IF m.bios_loaded_ THEN Cell(m.bios_, idx) ELSE kOpenBus
    ELSE IF in(addr, EWRAM_BASE, EWRAM_SIZE)
    THEN Cell(m.ewram_, Off(Sub32(addr, EWRAM_BASE)))
    ELSE IF in(addr, IWRAM_BASE, IWRAM_SIZE)
    THEN Cell(m.iwram_, Off(Sub32(addr, IWRAM_BASE)))
    ELSE IF in(addr, IO_BASE, IO_SIZE)
    THEN IO_read8(m.io_, Off(Sub32(addr, IO_BASE)))
    ELSE IF in_window(addr, PAL_BASE, kWindow16MiB)
    THEN Cell(m.pal_, pal_offset(addr))
    ELSE IF in_window(addr, VRAM_BASE, kVRAMWindow128KiB)
    THEN Cell(m.vram_, vram_offset(addr))
    ELSE IF in_window(addr, OAM_BASE, kWindow16MiB)
    THEN Cell(m.oam_, oam_offset(addr))
    ELSE IF in_any_ws(addr)
    THEN IF Len(m.gamepak_) = 0 THEN kOpenBus
         ELSE m.gamepak_[gamepak_index(m, addr) + 1]
    ELSE kOpenBus

\* the array MMU::read8 and MMU::write8 index for addr, the index they use and
\* the array's length; store "none" where they index nothing (the firmware
\* region before a load, an empty cartridge, unmapped space)
backing_index(m, addr) ==
    IF in(addr, BIOS_BASE, BIOS_SIZE)
    THEN IF m.bios_loaded_
         THEN [store |-> "bios_", index |-> Off(Sub32(addr, BIOS_BASE)), size |-> Off(BIOS_SIZE)]
         ELSE [store |-> "none", index |-> 0, size |-> 0]
    ELSE IF in(addr, EWRAM_BASE, EWRAM_SIZE)
    THEN [store |-> "ewram_", index |-> Off(Sub32(addr, EWRAM_BASE)), size |-> Off(EWRAM_SIZE)]
    ELSE IF in(addr, IWRAM_BASE, IWRAM_SIZE)
    THEN [store |-> "iwram_", index |-> Off(Sub32(addr, IWRAM_BASE)), size |-> Off(IWRAM_SIZE)]
    ELSE IF in(addr, IO_BASE, IO_SIZE)
    THEN [store |-> "raw_", index |-> Off(Sub32(addr, IO_BASE)), size |-> Off(IO_SIZE)]
    ELSE IF in_window(addr, PAL_BASE, kWindow16MiB)
    THEN [store |-> "pal_", index |-> pal_offset(addr), size |-> Off(PAL_SIZE)]
    ELSE IF in_window(addr, VRAM_BASE, kVRAMWindow128KiB)
    THEN [store |-> "vram_", index |-> vram_offset(addr), size |-> Off(VRAM_SIZE)]
    ELSE IF in_window(addr, OAM_BASE, kWindow16MiB)
    THEN [store |-> "oam_", index |-> oam_offset(addr), size |-> Off(OAM_SIZE)]
    ELSE IF in_any_ws(addr)
    THEN IF Len(m.gamepak_) = 0 THEN [store |-> "none", index |-> 0, size |-> 0]
         ELSE [store |-> "gamepak_", index |-> gamepak_index(m, addr), size |-> Len(m.gamepak_)]
    ELSE [store |-> "none", index |-> 0, size |-> 0]

\* a variant in which the firmware region accepts byte writes
write8_bios(m, addr, value) ==
    IF in(addr, BIOS_BASE, BIOS_SIZE)
    THEN [m EXCEPT !.bios_ = Put(m.bios_, Off(Sub32(addr, BIOS_BASE)), value)]
    ELSE IF in(addr, EWRAM_BASE, EWRAM_SIZE)
    THEN [m EXCEPT !.ewram_ = Put(m.ewram_, Off(Sub32(addr, EWRAM_BASE)), value)]
    ELSE IF in(addr, IWRAM_BASE, IWRAM_SIZE)
    THEN [m EXCEPT !.iwram_ = Put(m.iwram_, Off(Sub32(addr, IWRAM_BASE)), value)]
    ELSE IF in(addr, IO_BASE, IO_SIZE)
    THEN [m EXCEPT !.io_ = IO_write8(m.io_, Off(Sub32(addr, IO_BASE)), value)]
    ELSE IF in_window(addr, PAL_BASE, kWindow16MiB)
    THEN [m EXCEPT !.pal_ = Put(m.pal_, pal_offset(addr), value)]
    ELSE IF in_window(addr, VRAM_BASE, kVRAMWindow128KiB)
    THEN [m EXCEPT !.vram_ = Put(m.vram_, vram_offset(addr), value)]
    ELSE IF in_window(addr, OAM_BASE, kWindow16MiB)
    THEN [m EXCEPT !.oam_ = Put(m.oam_, oam_offset(addr), value)]
    ELSE m

write8(m, addr, value) ==
    IF in(addr, EWRAM_BASE, EWRAM_SIZE)
    THEN [m EXCEPT !.ewram_ = Put(m.ewram_, Off(Sub32(addr, EWRAM_BASE)), value)]
    ELSE IF in(addr, IWRAM_BASE, IWRAM_SIZE)
    THEN [m EXCEPT !.iwram_ = Put(m.iwram_, Off(Sub32(addr, IWRAM_BASE)), value)]
    ELSE IF in(addr, IO_BASE, IO_SIZE)
    THEN [m EXCEPT !.io_ = IO_write8(m.io_, Off(Sub32(addr, IO_BASE)), value)]
    ELSE IF in_window(addr, PAL_BASE, kWindow16MiB)
    THEN [m EXCEPT !.pal_ = Put(m.pal_, pal_offset(addr), value)]
    ELSE IF in_window(addr, VRAM_BASE, kVRAMWindow128KiB)
    THEN [m EXCEPT !.vram_ = Put(m.vram_, vram_offset(addr), value)]
    ELSE IF in_window(addr, OAM_BASE, kWindow16MiB)
    THEN [m EXCEPT !.oam_ = Put(m.oam_, oam_offset(addr), value)]
    ELSE m

\* 16-bit access: u16 values are naturals below 2^16
read16(m, addr) ==
    LET low == read8(m, addr)
        high == read8(m, Add32(addr, U32(1)))
    IN  BitOr(low, high * 256)

write16(m, addr, value) ==
    LET m1 == write8(m, addr, value % 256)
    IN  write8(m1, Add32(addr, U32(1)), (value \div 256) % 256)

\* 32-bit access: byte0 | byte1 << 8 | byte2 << 16 | byte3 << 24
\* a variant of the 32-bit read that clears the low two address bits first
read32_aligned(m, addr) ==
    LET base == W(addr.hi, addr.lo - (addr.lo % 4))
        byte0 == read8(m, base)
        byte1 == read8(m, Add32(base, U32(1)))
        byte2 == read8(m, Add32(base, U32(2)))
        byte3 == read8(m, Add32(base, U32(3)))
    IN  W(BitOr(byte2, byte3 * 256), BitOr(byte0, byte1 * 256))

read32(m, addr) ==
    LET byte0 == read8(m, addr)
        byte1 == read8(m, Add32(addr, U32(1)))
        byte2 == read8(m, Add32(addr, U32(2)))
        byte3 == read8(m, Add32(addr, U32(3)))
    IN  W(BitOr(byte2, byte3 * 256), BitOr(byte0, byte1 * 256))

write32(m, addr, value) ==
    LET m0 == write8(m, addr, value.lo % 256)
        m1 == write8(m0, Add32(addr, U32(1)), (value.lo \div 256) % 256)
        m2 == write8(m1, Add32(addr, U32(2)), value.hi % 256)
    IN  write8(m2, Add32(addr, U32(3)), (value.hi \div 256) % 256)

----------------------------------------------------------------------------
(* ARM7TDMI (arm7tdmi.h, arm7tdmi.cpp).  The CPU operators work on a record *)
(* s = [regs_, cpsr_, mmu_]: the register file, the status word and the     *)
(* memory the attached bus reaches.                                         *)

kRegSP == 13
kRegLR == 14
kRegPC == 15
kSignBit == W(32768, 0)
kFlagN == W(32768, 0)
kFlagZ == W(16384, 0)
kFlagC == W(8192, 0)
kFlagV == W(4096, 0)
kFlagT == W(0, 32)
kWordMask == Not32(U32(3))
kByteBits == 8
kWordBits == 32
kRotateMask == kWordBits - 1
Zero32 == W(0, 0)

\* reset(): regs_.fill(0); cpsr_ = kFlagT
cpu_reset(s) == [s EXCEPT !.regs_ = [i \in 0..15 |-> Zero32], !.cpsr_ = kFlagT]

debug_set_program_counter(s, addr) ==
    [s EXCEPT !.regs_[kRegPC] = And32(addr, Not32(U32(1)))]

debug_set_reg(s, index, value) ==
    [s EXCEPT !.regs_[BitAnd(index, 15)] = value]

\* a variant that assigns the status word from the result, dropping C, V and T
set_nz_assign(cpsr, result) ==
    LET c1 == IF result = Zero32 THEN kFlagZ ELSE Zero32
    IN  IF And32(result, kSignBit) # Zero32 THEN Or32(c1, kFlagN) ELSE c1

\* set_nz without the clearing of N and Z before the re-evaluation
set_nz_keep(cpsr, result) ==
    LET c1 == IF result = Zero32 THEN Or32(cpsr, kFlagZ) ELSE cpsr
    IN  IF And32(result, kSignBit) # Zero32 THEN Or32(c1, kFlagN) ELSE c1

set_nz(cpsr, result) ==
    LET c0 == And32(cpsr, Not32(Or32(kFlagN, kFlagZ)))
        c1 == IF result = Zero32 THEN Or32(c0, kFlagZ) ELSE c0
    IN  IF And32(result, kSignBit) # Zero32 THEN Or32(c1, kFlagN) ELSE c1

\* set_add_cv with the sum taken in 32 bits: nothing is left above bit 31
set_add_cv_narrow(cpsr, augend, addend, result) ==
    LET c1 == And32(cpsr, Not32(kFlagC))
        ovMask == And32(And32(Not32(Xor32(augend, addend)), Xor32(augend, result)), kSignBit)
    IN  IF ovMask # Zero32 THEN Or32(c1, kFlagV) ELSE And32(c1, Not32(kFlagV))

set_add_cv(cpsr, augend, addend, result) ==
    LET \* (u64)augend + (u64)addend, shifted right by 32
        wideSumHigh == (augend.hi + addend.hi + ((augend.lo + addend.lo) \div Half)) \div Half
        carry == wideSumHigh # 0
        c1 == IF carry THEN Or32(cpsr, kFlagC) ELSE And32(cpsr, Not32(kFlagC))
        ovMask == And32(And32(Not32(Xor32(augend, addend)), Xor32(augend, result)), kSignBit)
    IN  IF ovMask # Zero32 THEN Or32(c1, kFlagV) ELSE And32(c1, Not32(kFlagV))

\* set_sub_cv with a strict comparison: equal operands count as a borrow
set_sub_cv_strict(cpsr, minuend, subtrahend, result) ==
    LET c1 == IF Ult(subtrahend, minuend) THEN Or32(cpsr, kFlagC)
                                          ELSE And32(cpsr, Not32(kFlagC))
        ovMask == And32(And32(Xor32(minuend, subtrahend), Xor32(minuend, result)), kSignBit)
    IN  IF ovMask # Zero32 THEN Or32(c1, kFlagV) ELSE And32(c1, Not32(kFlagV))

set_sub_cv(cpsr, minuend, subtrahend, result) ==
    LET c1 == IF Uge(minuend, subtrahend) THEN Or32(cpsr, kFlagC)
                                          ELSE And32(cpsr, Not32(kFlagC))
        ovMask == And32(And32(Xor32(minuend, subtrahend), Xor32(minuend, result)), kSignBit)
    IN  IF ovMask # Zero32 THEN Or32(c1, kFlagV) ELSE And32(c1, Not32(kFlagV))

\* a variant that masks to 12 bits without extending the sign
sign_extend12_zero(value) ==
    LET mask == U32(Pow2(12) - 1)
    IN  And32(value, mask)

sign_extend12(value) ==
    LET mask == U32(Pow2(12) - 1)
        signMask == U32(Pow2(11))
        masked == And32(value, mask)
    IN  Sub32(Xor32(masked, signMask), signMask)

\* amt is the byte n of RotRight
rotr(value, amt) ==
    LET amt8 == BitAnd(amt, kRotateMask)
    IN  Or32(Shr32(value, amt8), Shl32(value, BitAnd(kWordBits - amt8, kRotateMask)))

\* a variant of the rotating load that rotates the other way
read_u32_unaligned_left(m, address) ==
    LET aligned == And32(address, kWordMask)
        raw == read32(m, aligned)
        byteRot == (And32(address, U32(3)).lo * kByteBits) % 256
    IN  rotr(raw, kWordBits - byteRot)

read_u32_unaligned(m, address) ==
    LET aligned == And32(address, kWordMask)
        raw == read32(m, aligned)
        byteRot == (And32(address, U32(3)).lo * kByteBits) % 256
    IN  rotr(raw, byteRot)

\* a variant of the rotating store that writes the value as it is
write_u32_unaligned_norot(m, addr, value) ==
    LET aligned == And32(addr, kWordMask)
    IN  write32(m, aligned, value)

write_u32_unaligned(m, addr, value) ==
    LET aligned == And32(addr, kWordMask)
        rotL == BitAnd(kWordBits - (And32(addr, U32(3)).lo * kByteBits), kRotateMask)
        rotated == rotr(value, rotL)
    IN  write32(m, aligned, rotated)

(* data-processing *)

exec_mov_imm(s, insn) ==
    LET destReg == (insn \div 256) % 8
        imm8 == U32(insn % 256)
    IN  [s EXCEPT !.regs_[destReg] = imm8, !.cpsr_ = set_nz(s.cpsr_, imm8)]

exec_add_imm(s, insn) ==
    LET destReg == (insn \div 256) % 8
        immValue == U32(insn % 256)
        regValue == s.regs_[destReg]
        sum == Add32(regValue, immValue)
    IN  [s EXCEPT !.regs_[destReg] = sum,
                  !.cpsr_ = set_add_cv(set_nz(s.cpsr_, sum), regValue, immValue, sum)]

exec_sub_imm(s, insn) ==
    LET destReg == (insn \div 256) % 8
        immValue == U32(insn % 256)
        regValue == s.regs_[destReg]
        difference == Sub32(regValue, immValue)
    IN  [s EXCEPT !.regs_[destReg] = difference,
                  !.cpsr_ = set_sub_cv(set_nz(s.cpsr_, difference), regValue, immValue, difference)]

exec_b(s, insn) ==
    LET imm11 == U32(BitAnd(insn, 2047))
        offset12 == Shl32(imm11, 1)
        signedOff == sign_extend12(offset12)
    IN  [s EXCEPT !.regs_[kRegPC] = Add32(s.regs_[kRegPC], signedOff)]

exec_add_reg(s, insn) ==
    LET offsetReg == (insn \div 64) % 8
        srcReg == (insn \div 8) % 8
        destReg == insn % 8
        srcValue == s.regs_[srcReg]
        offsetValue == s.regs_[offsetReg]
        result == Add32(srcValue, offsetValue)
    IN  [s EXCEPT !.regs_[destReg] = result,
                  !.cpsr_ = set_add_cv(set_nz(s.cpsr_, result), srcValue, offsetValue, result)]

exec_sub_reg(s, insn) ==
    LET offsetReg == (insn \div 64) % 8
        srcReg == (insn \div 8) % 8
        destReg == insn % 8
        srcValue == s.regs_[srcReg]
        offsetValue == s.regs_[offsetReg]
        result == Sub32(srcValue, offsetValue)
    IN  [s EXCEPT !.regs_[destReg] = result,
                  !.cpsr_ = set_sub_cv(set_nz(s.cpsr_, result), srcValue, offsetValue, result)]

exec_add_imm3(s, insn) ==
    LET imm3 == U32((insn \div 64) % 8)
        srcReg == (insn \div 8) % 8
        destReg == insn % 8
        srcValue == s.regs_[srcReg]
        result == Add32(srcValue, imm3)
    IN  [s EXCEPT !.regs_[destReg] = result,
                  !.cpsr_ = set_add_cv(set_nz(s.cpsr_, result), srcValue, imm3, result)]

exec_sub_imm3(s, insn) ==
    LET imm3 == U32((insn \div 64) % 8)
        srcReg == (insn \div 8) % 8
        destReg == insn % 8
        srcValue == s.regs_[srcReg]
        result == Sub32(srcValue, imm3)
    IN  [s EXCEPT !.regs_[destReg] = result,
                  !.cpsr_ = set_sub_cv(set_nz(s.cpsr_, result), srcValue, imm3, result)]

(* high register operations / BX *)

\* a variant that treats the high-register add like the low-register one and
\* updates the flags
exec_add_high_flags(s, insn) ==
    LET h1 == (insn \div 128) % 2
        h2 == (insn \div 64) % 2
        destReg == BitOr(insn % 8, h1 * 8)
        srcReg == BitOr((insn \div 8) % 8, h2 * 8)
        result == Add32(s.regs_[destReg], s.regs_[srcReg])
    IN  [s EXCEPT !.regs_[destReg] = result,
                  !.cpsr_ = set_add_cv(set_nz(s.cpsr_, result),
                                       s.regs_[destReg], s.regs_[srcReg], result)]

exec_add_high(s, insn) ==
    LET h1 == (insn \div 128) % 2
        h2 == (insn \div 64) % 2
        destReg == BitOr(insn % 8, h1 * 8)
        srcReg == BitOr((insn \div 8) % 8, h2 * 8)
        result == Add32(s.regs_[destReg], s.regs_[srcReg])
    IN  [s EXCEPT !.regs_[destReg] = result]

\* a variant that keeps the difference in the destination, as SUB does
exec_cmp_high_keep(s, insn) ==
    LET h1 == (insn \div 128) % 2
        h2 == (insn \div 64) % 2
        destReg == BitOr(insn % 8, h1 * 8)
        srcReg == BitOr((insn \div 8) % 8, h2 * 8)
        destValue == s.regs_[destReg]
        srcValue == s.regs_[srcReg]
        result == Sub32(destValue, srcValue)
    IN  [s EXCEPT !.regs_[destReg] = result,
                  !.cpsr_ = set_sub_cv(set_nz(s.cpsr_, result), destValue, srcValue, result)]

exec_cmp_high(s, insn) ==
    LET h1 == (insn \div 128) % 2
        h2 == (insn \div 64) % 2
        destReg == BitOr(insn % 8, h1 * 8)
        srcReg == BitOr((insn \div 8) % 8, h2 * 8)
        destValue == s.regs_[destReg]
        srcValue == s.regs_[srcReg]
        result == Sub32(destValue, srcValue)
    IN  [s EXCEPT !.cpsr_ = set_sub_cv(set_nz(s.cpsr_, result), destValue, srcValue, result)]

exec_mov_high(s, insn) ==
    LET h1 == (insn \div 128) % 2
        h2 == (insn \div 64) % 2
        destReg == BitOr(insn % 8, h1 * 8)
        srcReg == BitOr((insn \div 8) % 8, h2 * 8)
    IN  [s EXCEPT !.regs_[destReg] = s.regs_[srcReg]]

\* a variant that clears only bit 0 of the target in both states
exec_bx_halfword(s, insn) ==
    LET h2 == (insn \div 64) % 2
        srcReg == BitOr((insn \div 8) % 8, h2 * 8)
        targetAddr == s.regs_[srcReg]
    IN  IF And32(targetAddr, U32(1)) # Zero32
        THEN [s EXCEPT !.cpsr_ = Or32(s.cpsr_, kFlagT),
                       !.regs_[kRegPC] = And32(targetAddr, Not32(U32(1)))]
        ELSE [s EXCEPT !.cpsr_ = And32(s.cpsr_, Not32(kFlagT)),
                       !.regs_[kRegPC] = And32(targetAddr, Not32(U32(1)))]

exec_bx(s, insn) ==
    LET h2 == (insn \div 64) % 2
        srcReg == BitOr((insn \div 8) % 8, h2 * 8)
        targetAddr == s.regs_[srcReg]
    IN  IF And32(targetAddr, U32(1)) # Zero32
        THEN [s EXCEPT !.cpsr_ = Or32(s.cpsr_, kFlagT),
                       !.regs_[kRegPC] = And32(targetAddr, Not32(U32(1)))]
        ELSE [s EXCEPT !.cpsr_ = And32(s.cpsr_, Not32(kFlagT)),
                       !.regs_[kRegPC] = And32(targetAddr, Not32(U32(3)))]

(* loads and stores *)

\* a variant that aligns the address after the fetch without adding 2
exec_ldr_literal_near(s, insn) ==
    LET destReg == (insn \div 256) % 8
        imm8Words == U32(insn % 256)
        offsetBytes == Shl32(imm8Words, 2)
        pcAfterFetch == s.regs_[kRegPC]
        pcForLdr == And32(pcAfterFetch, kWordMask)
        address == Add32(pcForLdr, offsetBytes)
        loaded == read_u32_unaligned(s.mmu_, address)
    IN  [s EXCEPT !.regs_[destReg] = loaded, !.cpsr_ = set_nz(s.cpsr_, loaded)]

exec_ldr_literal(s, insn) ==
    LET destReg == (insn \div 256) % 8
        imm8Words == U32(insn % 256)
        offsetBytes == Shl32(imm8Words, 2)
        pcAfterFetch == s.regs_[kRegPC]
        pcForLdr == And32(Add32(pcAfterFetch, U32(2)), kWordMask)
        address == Add32(pcForLdr, offsetBytes)
        loaded == read_u32_unaligned(s.mmu_, address)
    IN  [s EXCEPT !.regs_[destReg] = loaded, !.cpsr_ = set_nz(s.cpsr_, loaded)]

\* a variant of the word load that leaves the status word alone
exec_ldr_imm_w_plain(s, insn) ==
    LET imm5Words == U32((insn \div 64) % 32)
        baseReg == (insn \div 8) % 8
        destReg == insn % 8
        address == Add32(s.regs_[baseReg], Shl32(imm5Words, 2))
        loaded == read_u32_unaligned(s.mmu_, address)
    IN  [s EXCEPT !.regs_[destReg] = loaded]

exec_ldr_imm_w(s, insn) ==
    LET imm5Words == U32((insn \div 64) % 32)
        baseReg == (insn \div 8) % 8
        destReg == insn % 8
        address == Add32(s.regs_[baseReg], Shl32(imm5Words, 2))
        loaded == read_u32_unaligned(s.mmu_, address)
    IN  [s EXCEPT !.regs_[destReg] = loaded, !.cpsr_ = set_nz(s.cpsr_, loaded)]

exec_str_imm_w(s, insn) ==
    LET imm5Words == U32((insn \div 64) % 32)
        baseReg == (insn \div 8) % 8
        destReg == insn % 8
        address == Add32(s.regs_[baseReg], Shl32(imm5Words, 2))
    IN  [s EXCEPT !.mmu_ = write_u32_unaligned(s.mmu_, address, s.regs_[destReg])]

exec_ldr_imm_b(s, insn) ==
    LET imm5 == U32((insn \div 64) % 32)
        baseReg == (insn \div 8) % 8
        destReg == insn % 8
        address == Add32(s.regs_[baseReg], imm5)
        loaded == U32(read8(s.mmu_, address))
    IN  [s EXCEPT !.regs_[destReg] = loaded, !.cpsr_ = set_nz(s.cpsr_, loaded)]

\* a variant that scales the offset by 4 as the word store does
exec_str_imm_b_scaled(s, insn) ==
    LET imm5 == U32((insn \div 64) % 32)
        baseReg == (insn \div 8) % 8
        srcReg == insn % 8
        address == Add32(s.regs_[baseReg], Shl32(imm5, 2))
    IN  [s EXCEPT !.mmu_ = write8(s.mmu_, address, And32(s.regs_[srcReg], U32(255)).lo)]

exec_str_imm_b(s, insn) ==
    LET imm5 == U32((insn \div 64) % 32)
        baseReg == (insn \div 8) % 8
        srcReg == insn % 8
        address == Add32(s.regs_[baseReg], imm5)
    IN  [s EXCEPT !.mmu_ = write8(s.mmu_, address, And32(s.regs_[srcReg], U32(255)).lo)]

(* PUSH / POP *)

BitSet(rlist, i) == BitAnd(rlist, Pow2(i)) # 0

\* the counting loop of exec_push
RECURSIVE push_count(_, _)
push_count(rlist, i) ==
    IF i >= 8 THEN 0
    ELSE (IF BitSet(rlist, i) THEN 1 ELSE 0) + push_count(rlist, i + 1)

\* a variant of the storing loop that walks the list from r7 down to r0
RECURSIVE push_store_down(_, _, _, _, _)
push_store_down(m, regs, rlist, i, addr) ==
    IF i >= 8 THEN [mmu_ |-> m, addr |-> addr]
    ELSE IF BitSet(rlist, 7 - i)
         THEN LET stored == write32(m, addr, regs[7 - i])
                  next == Add32(addr, U32(4))
              IN  IF stored = stored /\ next = next
                  THEN push_store_down(stored, regs, rlist, i + 1, next)
                  ELSE push_store_down(m, regs, rlist, i + 1, addr)
         ELSE push_store_down(m, regs, rlist, i + 1, addr)

\* the storing loop of exec_push, from register i on; yields [mmu_, addr].
\* The comparison makes TLC evaluate each store before the next iteration
\* instead of nesting the eight stores unevaluated.
RECURSIVE push_store(_, _, _, _, _)
push_store(m, regs, rlist, i, addr) ==
    IF i >= 8 THEN [mmu_ |-> m, addr |-> addr]
    ELSE IF BitSet(rlist, i)
         THEN LET stored == write32(m, addr, regs[i])
                  next == Add32(addr, U32(4))
              IN  IF stored = stored /\ next = next
                  THEN push_store(stored, regs, rlist, i + 1, next)
                  ELSE push_store(m, regs, rlist, i + 1, addr)
         ELSE push_store(m, regs, rlist, i + 1, addr)

\* a variant that stores upward from the old stack pointer and advances it
exec_push_ascending(s, insn) ==
    LET rlist == insn % 256
        pushLR == (insn \div 256) % 2 # 0
        count == push_count(rlist, 0) + (IF pushLR THEN 1 ELSE 0)
        sp == s.regs_[kRegSP]
        st == push_store(s.mmu_, s.regs_, rlist, 0, sp)
        m2 == IF pushLR THEN write32(st.mmu_, st.addr, s.regs_[kRegLR]) ELSE st.mmu_
    IN  [s EXCEPT !.mmu_ = m2, !.regs_[kRegSP] = Add32(sp, U32(count * 4))]

exec_push(s, insn) ==
    LET rlist == insn % 256
        pushLR == (insn \div 256) % 2 # 0
        count == push_count(rlist, 0) + (IF pushLR THEN 1 ELSE 0)
        sp == Sub32(s.regs_[kRegSP], U32(count * 4))
        st == push_store(s.mmu_, s.regs_, rlist, 0, sp)
        m2 == IF pushLR THEN write32(st.mmu_, st.addr, s.regs_[kRegLR]) ELSE st.mmu_
    IN  [s EXCEPT !.mmu_ = m2, !.regs_[kRegSP] = sp]

\* the loading loop of exec_pop, from register i on; yields [regs_, addr]
RECURSIVE pop_load(_, _, _, _, _)
pop_load(m, regs, rlist, i, addr) ==
    IF i >= 8 THEN [regs_ |-> regs, addr |-> addr]
    ELSE IF BitSet(rlist, i)
         THEN pop_load(m, [regs EXCEPT ![i] = read32(m, addr)], rlist, i + 1, Add32(addr, U32(4)))
         ELSE pop_load(m, regs, rlist, i + 1, addr)

\* a variant that does not count the return-address word in the new stack
\* pointer
exec_pop_short(s, insn) ==
    LET rlist == insn % 256
        popPC == (insn \div 256) % 2 # 0
        ld == pop_load(s.mmu_, s.regs_, rlist, 0, s.regs_[kRegSP])
        targetAddr == read32(s.mmu_, ld.addr)
        thumb == And32(targetAddr, U32(1)) # Zero32
        regs1 == IF ~popPC THEN ld.regs_
                 ELSE IF thumb
                      THEN [ld.regs_ EXCEPT ![kRegPC] = And32(targetAddr, Not32(U32(1)))]
                      ELSE [ld.regs_ EXCEPT ![kRegPC] = And32(targetAddr, Not32(U32(3)))]
        cpsr1 == IF ~popPC THEN s.cpsr_
                 ELSE IF thumb THEN Or32(s.cpsr_, kFlagT)
                      ELSE And32(s.cpsr_, Not32(kFlagT))
    IN  [s EXCEPT !.regs_ = [regs1 EXCEPT ![kRegSP] = ld.addr], !.cpsr_ = cpsr1]

exec_pop(s, insn) ==
    LET rlist == insn % 256
        popPC == (insn \div 256) % 2 # 0
        ld == pop_load(s.mmu_, s.regs_, rlist, 0, s.regs_[kRegSP])
        targetAddr == read32(s.mmu_, ld.addr)
        thumb == And32(targetAddr, U32(1)) # Zero32
        regs1 == IF ~popPC THEN ld.regs_
                 ELSE IF thumb
                      THEN [ld.regs_ EXCEPT ![kRegPC] = And32(targetAddr, Not32(U32(1)))]
                      ELSE [ld.regs_ EXCEPT ![kRegPC] = And32(targetAddr, Not32(U32(3)))]
        cpsr1 == IF ~popPC THEN s.cpsr_
                 ELSE IF thumb THEN Or32(s.cpsr_, kFlagT)
                      ELSE And32(s.cpsr_, Not32(kFlagT))
        addr1 == IF popPC THEN Add32(ld.addr, U32(4)) ELSE ld.addr
    IN  [s EXCEPT !.regs_ = [regs1 EXCEPT ![kRegSP] = addr1], !.cpsr_ = cpsr1]

(* conditional branch *)

\* a variant whose condition 8 (unsigned higher) looks at carry alone
conditionMet_hi(cpsr, cond) ==
    LET N == And32(cpsr, kFlagN) # Zero32
        Z == And32(cpsr, kFlagZ) # Zero32
        C == And32(cpsr, kFlagC) # Zero32
        V == And32(cpsr, kFlagV) # Zero32
    IN  CASE cond = 0 -> Z
          [] cond = 1 -> ~Z
          [] cond = 2 -> C
          [] cond = 3 -> ~C
          [] cond = 4 -> N
          [] cond = 5 -> ~N
          [] cond = 6 -> V
          [] cond = 7 -> ~V
          [] cond = 8 -> C
          [] cond = 9 -> ~C \/ Z
          [] cond = 10 -> N = V
          [] cond = 11 -> N # V
          [] cond = 12 -> ~Z /\ (N = V)
          [] cond = 13 -> Z \/ (N # V)
          [] cond = 14 -> TRUE
          [] OTHER -> FALSE

conditionMet(cpsr, cond) ==
    LET N == And32(cpsr, kFlagN) # Zero32
        Z == And32(cpsr, kFlagZ) # Zero32
        C == And32(cpsr, kFlagC) # Zero32
        V == And32(cpsr, kFlagV) # Zero32
    IN  CASE cond = 0 -> Z
          [] cond = 1 -> ~Z
          [] cond = 2 -> C
          [] cond = 3 -> ~C
          [] cond = 4 -> N
          [] cond = 5 -> ~N
          [] cond = 6 -> V
          [] cond = 7 -> ~V
          [] cond = 8 -> C /\ ~Z
          [] cond = 9 -> ~C \/ Z
          [] cond = 10 -> N = V
          [] cond = 11 -> N # V
          [] cond = 12 -> ~Z /\ (N = V)
          [] cond = 13 -> Z \/ (N # V)
          [] cond = 14 -> TRUE
          [] OTHER -> FALSE

exec_bcond(s, insn) ==
    LET cond == (insn \div 256) % 16
        imm8 == insn % 256
        \* int32(int8(imm8)) << 1, as the u32 it is added as
        signedOff == IF imm8 < 128 THEN U32(imm8 * 2)
                     ELSE Sub32(Zero32, U32((256 - imm8) * 2))
    IN  IF conditionMet(s.cpsr_, cond)
        THEN [s EXCEPT !.regs_[kRegPC] = Add32(s.regs_[kRegPC], signedOff)]
        ELSE s

(* fetch / decode / dispatch *)

\* the if/else chain of step(): the handler the fetched word is given to
decode(insn) ==
    LET top5 == BitAnd(insn, 63488)           \* 0xF800
        top7 == BitAnd(insn, 65024)           \* 0xFE00
        top8 == BitAnd(insn, 65280)           \* 0xFF00
        top7_pushpop == BitAnd(insn, 62976)   \* 0xF600
        top4 == BitAnd(insn, 61440)           \* 0xF000
    IN  IF top8 = 17408 THEN "add_high"            \* 0x4400
        ELSE IF top8 = 17664 THEN "cmp_high"       \* 0x4500
        ELSE IF top8 = 17920 THEN "mov_high"       \* 0x4600
        ELSE IF top8 = 18176 THEN "bx"             \* 0x4700
        ELSE IF top7_pushpop = 46080 THEN "push"   \* 0xB400
        ELSE IF top7_pushpop = 46592 THEN "pop"    \* 0xB600
        ELSE IF top7 = 6144 THEN "add_reg"         \* 0x1800
        ELSE IF top7 = 6656 THEN "sub_reg"         \* 0x1A00
        ELSE IF top7 = 7168 THEN "add_imm3"        \* 0x1C00
        ELSE IF top7 = 7680 THEN "sub_imm3"        \* 0x1E00
        ELSE IF top5 = 8192 THEN "mov_imm"         \* 0x2000
        ELSE IF top5 = 12288 THEN "add_imm"        \* 0x3000
        ELSE IF top5 = 14336 THEN "sub_imm"        \* 0x3800
        ELSE IF top5 = 18432 THEN "ldr_literal"    \* 0x4800
        ELSE IF top5 = 24576 THEN "str_imm_w"      \* 0x6000
        ELSE IF top5 = 26624 THEN "ldr_imm_w"      \* 0x6800
        ELSE IF top5 = 28672 THEN "str_imm_b"      \* 0x7000
        ELSE IF top5 = 30720 THEN "ldr_imm_b"      \* 0x7800
        ELSE IF top4 = 53248 THEN "bcond"          \* 0xD000
        ELSE IF top5 = 57344 THEN "b"              \* 0xE000
        ELSE "nop"

\* a variant that answers a word it cannot decode by resetting the processor
execute_trap(s, insn) ==
    LET h == decode(insn)
    IN  CASE h = "add_high" -> exec_add_high(s, insn)
          [] h = "cmp_high" -> exec_cmp_high(s, insn)
          [] h = "mov_high" -> exec_mov_high(s, insn)
          [] h = "bx" -> exec_bx(s, insn)
          [] h = "push" -> exec_push(s, insn)
          [] h = "pop" -> exec_pop(s, insn)
          [] h = "add_reg" -> exec_add_reg(s, insn)
          [] h = "sub_reg" -> exec_sub_reg(s, insn)
          [] h = "add_imm3" -> exec_add_imm3(s, insn)
          [] h = "sub_imm3" -> exec_sub_imm3(s, insn)
          [] h = "mov_imm" -> exec_mov_imm(s, insn)
          [] h = "add_imm" -> exec_add_imm(s, insn)
          [] h = "sub_imm" -> exec_sub_imm(s, insn)
          [] h = "ldr_literal" -> exec_ldr_literal(s, insn)
          [] h = "str_imm_w" -> exec_str_imm_w(s, insn)
          [] h = "ldr_imm_w" -> exec_ldr_imm_w(s, insn)
          [] h = "str_imm_b" -> exec_str_imm_b(s, insn)
          [] h = "ldr_imm_b" -> exec_ldr_imm_b(s, insn)
          [] h = "bcond" -> exec_bcond(s, insn)
          [] h = "b" -> exec_b(s, insn)
          [] OTHER -> cpu_reset(s)

execute(s, insn) ==
    LET h == decode(insn)
    IN  CASE h = "add_high" -> exec_add_high(s, insn)
          [] h = "cmp_high" -> exec_cmp_high(s, insn)
          [] h = "mov_high" -> exec_mov_high(s, insn)
          [] h = "bx" -> exec_bx(s, insn)
          [] h = "push" -> exec_push(s, insn)
          [] h = "pop" -> exec_pop(s, insn)
          [] h = "add_reg" -> exec_add_reg(s, insn)
          [] h = "sub_reg" -> exec_sub_reg(s, insn)
          [] h = "add_imm3" -> exec_add_imm3(s, insn)
          [] h = "sub_imm3" -> exec_sub_imm3(s, insn)
          [] h = "mov_imm" -> exec_mov_imm(s, insn)
          [] h = "add_imm" -> exec_add_imm(s, insn)
          [] h = "sub_imm" -> exec_sub_imm(s, insn)
          [] h = "ldr_literal" -> exec_ldr_literal(s, insn)
          [] h = "str_imm_w" -> exec_str_imm_w(s, insn)
          [] h = "ldr_imm_w" -> exec_ldr_imm_w(s, insn)
          [] h = "str_imm_b" -> exec_str_imm_b(s, insn)
          [] h = "ldr_imm_b" -> exec_ldr_imm_b(s, insn)
          [] h = "bcond" -> exec_bcond(s, insn)
          [] h = "b" -> exec_b(s, insn)
          [] OTHER -> s

\* the indices with which step() and the handler it runs for insn access
\* regs_: r15 for the fetch, then the handler's register fields
reg_indices(insn) ==
    LET h == decode(insn)
        low0 == insn % 8
        low3 == (insn \div 8) % 8
        low6 == (insn \div 64) % 8
        low8 == (insn \div 256) % 8
        h1 == (insn \div 128) % 2
        h2 == (insn \div 64) % 2
    IN  {kRegPC} \cup
        CASE h \in {"add_high", "cmp_high", "mov_high"} ->
                 {BitOr(low0, h1 * 8), BitOr(low3, h2 * 8)}
          [] h = "bx" -> {BitOr(low3, h2 * 8), kRegPC}
          [] h = "push" -> {i \in 0..7 : BitSet(insn % 256, i)} \cup {kRegSP, kRegLR}
          [] h = "pop" -> {i \in 0..7 : BitSet(insn % 256, i)} \cup {kRegSP, kRegPC}
          [] h \in {"add_reg", "sub_reg"} -> {low6, low3, low0}
          [] h \in {"add_imm3", "sub_imm3"} -> {low3, low0}
          [] h \in {"mov_imm", "add_imm", "sub_imm"} -> {low8}
          [] h = "ldr_literal" -> {low8, kRegPC}
          [] h \in {"str_imm_w", "ldr_imm_w", "str_imm_b", "ldr_imm_b"} -> {low3, low0}
          [] h \in {"bcond", "b"} -> {kRegPC}
          [] OTHER -> {}

\* the word step() fetches in state s
fetch(s) == read16(s.mmu_, s.regs_[kRegPC])

\* a variant that advances the program counter by 4 after the fetch
step_wide(s) ==
    LET fetchAddr == s.regs_[kRegPC]
        insn == fetch(s)
        s1 == [s EXCEPT !.regs_[kRegPC] = Add32(fetchAddr, U32(4))]
    IN  execute(s1, insn)

\* a variant that executes the fetched word only while the T flag is set
step_gated(s) ==
    LET fetchAddr == s.regs_[kRegPC]
        insn == fetch(s)
        s1 == [s EXCEPT !.regs_[kRegPC] = Add32(fetchAddr, U32(2))]
    IN  IF And32(s.cpsr_, kFlagT) # Zero32 THEN execute(s1, insn) ELSE s1

step(s) ==
    LET fetchAddr == s.regs_[kRegPC]
        insn == fetch(s)
        s1 == [s EXCEPT !.regs_[kRegPC] = Add32(fetchAddr, U32(2))]
    IN  execute(s1, insn)

----------------------------------------------------------------------------
(* Inputs *)

\* Thumb encodings (the encoders of the test files)
Thumb_MOV_imm(rd, imm8) == 8192 + rd * 256 + imm8
Thumb_ADD_imm(rd, imm8) == 12288 + rd * 256 + imm8
Thumb_SUB_imm(rd, imm8) == 14336 + rd * 256 + imm8
Thumb_ADD_reg(rd, rs, rn) == 6144 + rn * 64 + rs * 8 + rd
Thumb_SUB_reg(rd, rs, rn) == 6656 + rn * 64 + rs * 8 + rd
Thumb_ADD_imm3(rd, rs, imm3) == 7168 + imm3 * 64 + rs * 8 + rd
Thumb_SUB_imm3(rd, rs, imm3) == 7680 + imm3 * 64 + rs * 8 + rd
Thumb_ADD_high(destReg, srcReg) ==
    17408 + (destReg \div 8) * 128 + (srcReg \div 8) * 64 + (srcReg % 8) * 8 + (destReg % 8)
Thumb_CMP_high(destReg, srcReg) ==
    17664 + (destReg \div 8) * 128 + (srcReg \div 8) * 64 + (srcReg % 8) * 8 + (destReg % 8)
Thumb_MOV_high(destReg, srcReg) ==
    17920 + (destReg \div 8) * 128 + (srcReg \div 8) * 64 + (srcReg % 8) * 8 + (destReg % 8)
Thumb_BX(srcReg) == 18176 + (srcReg \div 8) * 64 + (srcReg % 8) * 8
Thumb_LDR_literal(rd, imm8) == 18432 + rd * 256 + imm8
Thumb_STR_imm_w(rd, rb, imm5) == 24576 + imm5 * 64 + rb * 8 + rd
Thumb_LDR_imm_w(rd, rb, imm5) == 26624 + imm5 * 64 + rb * 8 + rd
Thumb_STRB_imm(rd, rb, imm5) == 28672 + imm5 * 64 + rb * 8 + rd
Thumb_LDRB_imm(rd, rb, imm5) == 30720 + imm5 * 64 + rb * 8 + rd
Thumb_B(imm11) == 57344 + imm11
Thumb_Bcond(cond, imm8) == 53248 + cond * 256 + imm8
Thumb_LSL_imm(destReg, srcReg, imm5) == 0 * 2048 + imm5 * 64 + (srcReg % 8) * 8 + (destReg % 8)
Thumb_LSR_imm(destReg, srcReg, imm5) == 1 * 2048 + imm5 * 64 + (srcReg % 8) * 8 + (destReg % 8)
Thumb_ASR_imm(destReg, srcReg, imm5) == 2 * 2048 + imm5 * 64 + (srcReg % 8) * 8 + (destReg % 8)
Thumb_ALU_reg(op, destReg, srcReg) == 16 * 1024 + op * 64 + (srcReg % 8) * 8 + (destReg % 8)
Thumb_CMP_imm(reg, imm8) == 5 * 2048 + (reg % 8) * 256 + imm8

\* where the fixtures put the program: MMU::IWRAM_BASE
CodeBase == IWRAM_BASE

\* operand values at the edges of the 32-bit range
Operands ==
    {W(0, 0), W(0, 1), W(0, 255), W(32767, 65535), W(32768, 0), W(65535, 65535)}

\* flag-setting data-processing instructions on r0, r1, r2
AluInsns ==
    {Thumb_MOV_imm(0, 0), Thumb_MOV_imm(2, 200),
     Thumb_ADD_imm(0, 1), Thumb_ADD_imm(1, 255), Thumb_ADD_imm(0, 0),
     Thumb_SUB_imm(0, 1), Thumb_SUB_imm(1, 255),
     Thumb_ADD_reg(2, 0, 1), Thumb_ADD_reg(0, 0, 0),
     Thumb_SUB_reg(2, 0, 1), Thumb_SUB_reg(2, 1, 0),
     Thumb_ADD_imm3(2, 0, 7), Thumb_ADD_imm3(1, 1, 1),
     Thumb_SUB_imm3(2, 1, 7), Thumb_SUB_imm3(0, 0, 1)}

\* fixture of tests/cpu_flags.cpp: two instructions at the code base, r0 and r1 set
AluScript ==
    << [op |-> "write16", addrs |-> {CodeBase}, vals |-> AluInsns],
       [op |-> "write16", addrs |-> {Add32(CodeBase, U32(2))}, vals |-> AluInsns],
       [op |-> "set_pc", vals |-> {CodeBase}],
       [op |-> "set_reg", idx |-> {0}, vals |-> Operands],
       [op |-> "set_reg", idx |-> {1}, vals |-> Operands] >>

\* instructions that leave different N, Z, C, V behind
FlagSetters == {Thumb_SUB_reg(3, 0, 1), Thumb_ADD_reg(3, 0, 0), Thumb_MOV_imm(3, 0)}

\* high-register ADD and MOV into every register, word and byte stores
FrameInsns ==
    {Thumb_ADD_high(d, r) : d \in 0..15, r \in {0, 8, 15}}
    \cup {Thumb_MOV_high(d, r) : d \in 0..15, r \in {0, 8, 15}}
    \cup {Thumb_STR_imm_w(0, 1, 0), Thumb_STR_imm_w(0, 1, 31), Thumb_STR_imm_w(1, 0, 1),
          Thumb_STRB_imm(0, 1, 0), Thumb_STRB_imm(0, 1, 31), Thumb_STRB_imm(1, 0, 3)}

\* where the fixtures keep data: inside internal work RAM, past the program
DataBase == Add32(IWRAM_BASE, U32(256))

\* fixture of tests/cpu_thumb_format5.cpp: a flag-setting instruction, then
\* the instruction under test
FrameScript ==
    << [op |-> "write16", addrs |-> {CodeBase}, vals |-> FlagSetters],
       [op |-> "write16", addrs |-> {Add32(CodeBase, U32(2))}, vals |-> FrameInsns],
       [op |-> "set_pc", vals |-> {CodeBase}],
       [op |-> "set_reg", idx |-> {0}, vals |-> {W(0, 0), W(32768, 0), W(65535, 65535)}],
       [op |-> "set_reg", idx |-> {1, 8, 14},
        vals |-> {DataBase, W(32767, 65535), W(65535, 65534)}] >>

\* base addresses for loads and stores: every alignment inside work RAM, the
\* mirrored stores, the I/O block, the read-only regions, unmapped space and
\* the top of the address space
BaseAddrs ==
    {Add32(DataBase, U32(k)) : k \in 0..3}
    \cup {W(512, 1),            \* 0x02000001 external work RAM
          W(1280, 1026),        \* 0x05000402 palette, second mirror
          W(1537, 32771),       \* 0x06018003 video memory, aliased tail
          W(1792, 8),           \* 0x07000008 object attributes
          W(1024, 5),           \* 0x04000005 I/O: display status, then plain
          W(0, 0),              \* 0x00000000 firmware
          W(2048, 2),           \* 0x08000002 cartridge
          W(3584, 0),           \* 0x0E000000 unmapped
          W(65535, 65533)}      \* 0xFFFFFFFD wraps with the offset

StoreValues == {W(4386, 13124), W(32768, 0), W(0, 0), W(65535, 65535)}  \* 0x11223344 ...

StoreInsns ==
    {Thumb_STR_imm_w(0, 1, 0), Thumb_STR_imm_w(0, 1, 1), Thumb_STRB_imm(0, 1, 1)}

LoadInsns ==
    {Thumb_LDR_imm_w(2, 1, 0), Thumb_LDR_imm_w(2, 1, 1), Thumb_LDRB_imm(2, 1, 1),
     Thumb_LDRB_imm(2, 1, 3), Thumb_LDR_literal(2, 0), Thumb_LDR_literal(2, 63)}

\* fixture of tests/cpu_thumb_loadstore.cpp: r0 the value, r1 the base
LdStScript ==
    << [op |-> "write16", addrs |-> {CodeBase}, vals |-> StoreInsns \cup {Thumb_SUB_reg(3, 0, 1)}],
       [op |-> "write16", addrs |-> {Add32(CodeBase, U32(2))}, vals |-> LoadInsns \cup StoreInsns],
       [op |-> "set_pc", vals |-> {CodeBase}],
       [op |-> "set_reg", idx |-> {0}, vals |-> StoreValues],
       [op |-> "set_reg", idx |-> {1}, vals |-> BaseAddrs] >>

\* instructions that write r15, and two that do not
PcInsns ==
    {Thumb_MOV_high(15, 0), Thumb_ADD_high(15, 0), Thumb_MOV_high(15, 14),
     Thumb_BX(0), Thumb_BX(14), Thumb_B(1), Thumb_B(2046),
     Thumb_Bcond(0, 254), Thumb_Bcond(1, 2),
     48896,                     \* 0xBF00: pop with the return-address slot
     Thumb_MOV_imm(0, 3), Thumb_ADD_imm(0, 1)}

\* fixture of tests/cpu_thumb_smoke.cpp: the program counter and r0..r14 set
\* through the debug hooks, then steps
PcScript ==
    << [op |-> "write16", addrs |-> {CodeBase}, vals |-> PcInsns],
       [op |-> "write16", addrs |-> {Add32(CodeBase, U32(2))}, vals |-> PcInsns],
       [op |-> "set_pc", vals |-> {CodeBase, Add32(CodeBase, U32(1)), W(65535, 65535)}],
       [op |-> "set_reg", idx |-> {0, 14},
        vals |-> {CodeBase, Add32(CodeBase, U32(1)), Add32(CodeBase, U32(3)), W(0, 2)}],
       [op |-> "set_reg", idx |-> {13}, vals |-> {DataBase, W(0, 0)}] >>

\* addresses for direct bus accesses
BusAddrs ==
    {Add32(EWRAM_BASE, U32(k)) : k \in {0, 1, 2, 3, 262140, 262141}}
    \cup {Add32(IWRAM_BASE, U32(k)) : k \in {0, 1, 2, 3, 32765}}
    \cup {W(0, 0), W(1536, 1), W(2048, 0)}

\* fixture of tests/mmu_width.cpp: direct bus writes of each width
BusScript ==
    << [op |-> "write8", addrs |-> BusAddrs, vals |-> {90, 255}],
       [op |-> "write16", addrs |-> BusAddrs, vals |-> {48879}],
       [op |-> "write32", addrs |-> BusAddrs,
        vals |-> {W(4386, 13124), W(65535, 65535), W(32768, 1)}] >>

\* addresses at the edges of every region, of its mirrors and of its window
MapAddrs ==
    {W(1280, 0), W(1280, 1023), W(1280, 1024), W(1280, 1026), W(1535, 64512), W(1535, 65535),
     W(1792, 0), W(1792, 8), W(1792, 1023), W(1792, 1032), W(2047, 64512), W(2047, 65535),
     W(1536, 0), W(1536, 32767), W(1536, 32768), W(1537, 32767), W(1537, 32768),
     W(1537, 65535), W(1538, 0),
     W(512, 0), W(515, 65535), W(516, 0), W(768, 0), W(768, 32767), W(768, 32768),
     W(0, 0), W(0, 16383), W(2048, 0), W(3584, 0), W(1024, 1024), W(511, 65535),
     W(65535, 65535)}

\* fixture of tests/mmu_map.cpp and tests/mmu_width.cpp: byte and halfword
\* writes anywhere in the map
MapScript ==
    << [op |-> "write16", addrs |-> MapAddrs, vals |-> {48879}],
       [op |-> "write8", addrs |-> MapAddrs, vals |-> {90, 255}],
       [op |-> "write16", addrs |-> MapAddrs, vals |-> {4660}] >>

\* cartridge images: none, and lengths that do and do not divide 32 MiB
Images == {<<>>, <<9>>, <<1, 2, 3>>, <<222, 173, 190, 239>>, <<1, 2, 3, 4, 5>>}

\* firmware files: one that does not open, an empty one, a short one
BiosFiles ==
    {[ok |-> FALSE, bytes |-> <<>>], [ok |-> TRUE, bytes |-> <<>>],
     [ok |-> TRUE, bytes |-> <<17, 0, 51, 68, 85>>]}

\* addresses in and around the firmware region, the cartridge windows and
\* unmapped space
RomAddrs ==
    {W(0, 0), W(0, 2), W(0, 16381), W(0, 16383), W(0, 16384),
     W(2048, 0), W(2048, 3), W(2559, 65535), W(2560, 1), W(3072, 2), W(3583, 65535),
     W(3584, 0), W(511, 65534), W(2047, 65535), W(1024, 1024), W(1538, 0),
     W(516, 0), W(65535, 65535)}

\* fixture of tests/cart_map.cpp and tests/bios_load.cpp: load, then writes of
\* every width at read-only and unmapped addresses
RomScript ==
    << [op |-> "load_gamepak", images |-> Images],
       [op |-> "load_bios", files |-> BiosFiles],
       [op |-> "write8", addrs |-> RomAddrs, vals |-> {90}],
       [op |-> "write32", addrs |-> RomAddrs, vals |-> {W(4386, 13124)}],
       [op |-> "write16", addrs |-> RomAddrs, vals |-> {48879}] >>

\* fixture for reset: everything loaded and written, a program run, then resets
ResetScript ==
    << [op |-> "load_gamepak", images |-> {<<>>, <<222, 173, 190, 239>>}],
       [op |-> "load_bios", files |-> BiosFiles],
       [op |-> "write8", vals |-> {90},
        addrs |-> {W(512, 7), W(1280, 5), W(1536, 9), W(1792, 3), DataBase}],
       [op |-> "write16", addrs |-> {CodeBase},
        vals |-> {Thumb_SUB_reg(3, 0, 1), Thumb_MOV_high(8, 1), Thumb_STR_imm_w(1, 1, 0)}],
       [op |-> "set_pc", vals |-> {CodeBase}],
       [op |-> "set_reg", idx |-> {1, 13}, vals |-> {DataBase, W(65535, 65535)}] >>

\* shifts by an immediate, r1 from r0
ShiftInsns ==
    {Thumb_LSL_imm(1, 0, 2), Thumb_LSL_imm(1, 0, 31), Thumb_LSL_imm(1, 0, 1),
     Thumb_LSR_imm(1, 0, 2), Thumb_LSR_imm(1, 0, 31),
     Thumb_ASR_imm(1, 0, 2), Thumb_ASR_imm(1, 0, 31)}

\* fixture of tests/cpu_thumb_alu.cpp: MOV into r0 (or into r2, keeping the r0
\* set through the debug hook), then a shift
ShiftScript ==
    << [op |-> "write16", addrs |-> {CodeBase},
        vals |-> {Thumb_MOV_imm(0, 85), Thumb_MOV_imm(2, 0), Thumb_MOV_imm(2, 1)}],
       [op |-> "write16", addrs |-> {Add32(CodeBase, U32(2))}, vals |-> ShiftInsns],
       [op |-> "set_pc", vals |-> {CodeBase}],
       [op |-> "set_reg", idx |-> {0},
        vals |-> {W(0, 1), W(32768, 0), W(65535, 65535), W(16384, 3)}] >>

\* compare with an immediate and the register logical operations AND (0),
\* EOR (1), ORR (12), BIC (14), MVN (15), on r0 and r1
LogicInsns ==
    {Thumb_CMP_imm(0, 32), Thumb_CMP_imm(0, 66), Thumb_CMP_imm(0, 16), Thumb_CMP_imm(0, 0)}
    \cup {Thumb_ALU_reg(op, 0, 1) : op \in {0, 1, 12, 14, 15}}

\* fixture of tests/cpu_thumb_alu.cpp: MOV into r0, then the instruction under
\* test; r1 set through the debug hook
LogicScript ==
    << [op |-> "write16", addrs |-> {CodeBase},
        vals |-> {Thumb_MOV_imm(0, 16), Thumb_MOV_imm(0, 66), Thumb_MOV_imm(0, 240),
                  Thumb_MOV_imm(0, 0)}],
       [op |-> "write16", addrs |-> {Add32(CodeBase, U32(2))}, vals |-> LogicInsns],
       [op |-> "set_pc", vals |-> {CodeBase}],
       [op |-> "set_reg", idx |-> {1},
        vals |-> {W(0, 170), W(0, 240), W(65535, 65535), W(0, 0)}] >>

\* control transfers: BX through low and high registers and r15, every
\* condition with forward and backward displacements, B both ways
FlowInsns ==
    {Thumb_BX(r) : r \in {0, 1, 8, 14, 15}}
    \cup {Thumb_Bcond(c, imm) : c \in 0..15, imm \in {2, 127, 128, 254}}
    \cup {Thumb_B(imm) : imm \in {0, 1, 1023, 1024, 2046}}

\* fixture of tests/cpu_thumb_format5.cpp and tests/cpu_thumb_smoke.cpp: a
\* flag-setting instruction, then the transfer; targets in r1, r8 or r14
FlowScript ==
    << [op |-> "write16", addrs |-> {CodeBase}, vals |-> FlagSetters],
       [op |-> "write16", addrs |-> {Add32(CodeBase, U32(2))}, vals |-> FlowInsns],
       [op |-> "set_pc", vals |-> {CodeBase}],
       [op |-> "set_reg", idx |-> {0}, vals |-> {W(0, 0), W(32768, 0), W(65535, 65535)}],
       [op |-> "set_reg", idx |-> {1, 8, 14},
        vals |-> {Add32(DataBase, U32(1)), Add32(DataBase, U32(2)), DataBase, W(0, 1)}] >>

\* high-register compares between low registers, high registers and r15
CmpInsns == {Thumb_CMP_high(d, r) : d \in {0, 8, 13, 15}, r \in {1, 9, 14, 15}}

\* fixture of tests/cpu_thumb_format5.cpp: a flag-setting instruction, then
\* the compare; both operands set through the debug hook
CmpScript ==
    << [op |-> "write16", addrs |-> {CodeBase}, vals |-> FlagSetters],
       [op |-> "write16", addrs |-> {Add32(CodeBase, U32(2))}, vals |-> CmpInsns],
       [op |-> "set_pc", vals |-> {CodeBase}],
       [op |-> "set_reg", idx |-> {0, 8, 13},
        vals |-> {W(0, 0), W(0, 5), W(32768, 0), W(65535, 65535)}],
       [op |-> "set_reg", idx |-> {1, 9, 14},
        vals |-> {W(0, 0), W(0, 5), W(0, 1), W(32768, 0)}] >>

\* literal loads with small and the largest immediate
LiteralInsns ==
    {Thumb_LDR_literal(1, 0), Thumb_LDR_literal(1, 1), Thumb_LDR_literal(2, 2),
     Thumb_LDR_literal(2, 255)}

\* fixture of tests/cpu_thumb_loadstore.cpp: a literal load at the code base
\* (word-aligned) or right after it (not word-aligned), and a pool of
\* distinct words behind the code
LiteralScript ==
    << [op |-> "write16", addrs |-> {CodeBase}, vals |-> LiteralInsns \cup {Thumb_MOV_imm(0, 42)}],
       [op |-> "write16", addrs |-> {Add32(CodeBase, U32(2))}, vals |-> LiteralInsns],
       [op |-> "write32", addrs |-> {Add32(CodeBase, U32(4))},
        vals |-> {W(4386, 13124), W(0, 0)}],
       [op |-> "write32", addrs |-> {Add32(CodeBase, U32(8))},
        vals |-> {W(21862, 30600), W(32768, 0)}],
       [op |-> "write32", addrs |-> {Add32(CodeBase, U32(12)), Add32(CodeBase, U32(1024))},
        vals |-> {W(43707, 52445)}],
       [op |-> "set_pc", vals |-> {CodeBase}] >>

\* words step() gives to exec_push: no register, one, several, all, with and
\* without the link register, and one with bit 11 set (0xBC03)
PushInsns == {46080, 46081, 46338, 46210, 46336, 46591, 48131}
\* words step() gives to exec_pop: 0xB600, 0xB601, 0xB603, 0xB682, and with
\* the return-address slot 0xB700, 0xB703; with bit 11 set 0xBE82, 0xBF01
PopInsns == {46592, 46593, 46595, 46722, 46848, 46851, 48770, 48897}

\* where the fixture puts the stack pointer: the end of internal work RAM,
\* the reset value 0, external work RAM and its end, an odd address, the
\* palette, the I/O block and the cartridge
StackTops ==
    {W(768, 32768), W(0, 0), W(512, 16), W(516, 4), W(768, 257),
     W(1280, 16), W(1024, 16), W(2048, 16)}

\* fixture for the stack instructions: a push (or a flag-setting instruction),
\* then a pop (or a push); r13, r0, r1 or r7, and r14 set through the debug hook
StackScript ==
    << [op |-> "write16", addrs |-> {CodeBase}, vals |-> PushInsns \cup {Thumb_SUB_reg(3, 0, 1)}],
       [op |-> "write16", addrs |-> {Add32(CodeBase, U32(2))}, vals |-> PopInsns \cup {46339}],
       [op |-> "set_pc", vals |-> {CodeBase}],
       [op |-> "set_reg", idx |-> {13}, vals |-> StackTops],
       [op |-> "set_reg", idx |-> {0}, vals |-> {W(4386, 13124), W(32768, 0)}],
       [op |-> "set_reg", idx |-> {1, 7}, vals |-> {W(43707, 52445)}],
       [op |-> "set_reg", idx |-> {14},
        vals |-> {Add32(CodeBase, U32(33)), Add32(CodeBase, U32(34))}] >>

\* words no branch of step() takes: shifts by an immediate (0x0081, 0x0881,
\* 0x1081), compare-immediate (0x2820), register ALU (0x4008, 0x43C8),
\* register-offset and halfword transfers (0x5042, 0x8842), SP-relative
\* (0x9001), address generation (0xA001, 0xB001), 0xB801, 0xBA00, multiple
\* transfer (0xC003), 0xE801, long branch (0xF000, 0xF801), 0xFFFF, and the
\* all-zero word
NopInsns ==
    {129, 2177, 4225, 10272, 16392, 17352, 20546, 34882, 36865, 40961, 45057,
     47105, 47616, 49155, 59393, 61440, 63489, 65535, 0}

\* fixture for undecoded words: a flag-setting instruction, then the word;
\* r0 and r1 hold values that a load, a store or a branch would act on
NopScript ==
    << [op |-> "write16", addrs |-> {CodeBase}, vals |-> FlagSetters],
       [op |-> "write16", addrs |-> {Add32(CodeBase, U32(2))}, vals |-> NopInsns],
       [op |-> "set_pc", vals |-> {CodeBase}],
       [op |-> "set_reg", idx |-> {0}, vals |-> {W(32768, 0), W(65535, 65535), DataBase}],
       [op |-> "set_reg", idx |-> {1, 13}, vals |-> {DataBase, W(0, 1)}] >>

\* mode exchanges: BX through r1 and r14, and pops with the return-address
\* slot (0xBF00, and 0xBF01 which also loads r0)
ExchangeInsns == {Thumb_BX(1), Thumb_BX(14), 48896, 48897}
\* what the exchange lands on: instructions that change a register, the
\* flags, memory or the program counter, an exchange back, and two words no
\* branch of step() takes (0x0000, 0xFFFF)
TargetInsns ==
    {Thumb_MOV_imm(0, 3), Thumb_ADD_imm(0, 1), Thumb_SUB_reg(3, 0, 1),
     Thumb_STR_imm_w(0, 1, 1), Thumb_STRB_imm(0, 1, 9), Thumb_LDR_imm_w(2, 1, 0),
     Thumb_MOV_high(8, 0), Thumb_B(2), Thumb_BX(14), 46081, 0, 65535}

\* fixture for the state after an exchange: the exchange at the code base,
\* the landing word at the data base, a return address on the stack, targets
\* with bit 0 clear and set in r1 and r14
ExchangeScript ==
    << [op |-> "write16", addrs |-> {CodeBase}, vals |-> ExchangeInsns],
       [op |-> "write16", addrs |-> {DataBase}, vals |-> TargetInsns],
       [op |-> "write32", addrs |-> {Add32(DataBase, U32(64))},
        vals |-> {DataBase, Add32(DataBase, U32(1)), Add32(DataBase, U32(2))}],
       [op |-> "set_pc", vals |-> {CodeBase}],
       [op |-> "set_reg", idx |-> {13}, vals |-> {Add32(DataBase, U32(64))}],
       [op |-> "set_reg", idx |-> {0}, vals |-> {W(32768, 0), W(0, 0)}],
       [op |-> "set_reg", idx |-> {1}, vals |-> {DataBase, Add32(DataBase, U32(1))}],
       [op |-> "set_reg", idx |-> {14}, vals |-> {DataBase, Add32(CodeBase, U32(1))}] >>

\* aligned words the byte fixture primes and bases its accesses on: internal
\* and external work RAM, the last palette word of a 1 KiB image, the head of
\* video memory, the display status word and a plain I/O word, the cartridge
\* and unmapped space
ByteBases ==
    {DataBase, W(512, 16), W(1280, 1020), W(1536, 0), W(1024, 4), W(1024, 8),
     W(2048, 0), W(3584, 0)}
ByteStores == {Thumb_STRB_imm(0, 1, k) : k \in {0, 1, 3, 31}}
ByteLoads == {Thumb_LDRB_imm(2, 1, k) : k \in {0, 1, 3, 31}}

\* fixture of tests/cpu_thumb_loadstore_byte.cpp: a primed word, a byte store
\* and a byte load; r0 the value, r1 the base
ByteScript ==
    << [op |-> "write32", addrs |-> ByteBases, vals |-> {W(4386, 13124)}],
       [op |-> "write16", addrs |-> {CodeBase}, vals |-> ByteStores],
       [op |-> "write16", addrs |-> {Add32(CodeBase, U32(2))},
        vals |-> ByteLoads \cup {Thumb_STRB_imm(0, 1, 2)}],
       [op |-> "set_pc", vals |-> {CodeBase}],
       [op |-> "set_reg", idx |-> {0}, vals |-> {W(4660, 171), W(65535, 65349)}],
       [op |-> "set_reg", idx |-> {1}, vals |-> ByteBases] >>

\* addresses of the display registers: DISPCNT, DISPSTAT, VCOUNT
DispcntAddr == IO_BASE
DispstatAddr == Add32(IO_BASE, U32(kOffDISPSTAT))
VcountAddr == Add32(IO_BASE, U32(kOffVCOUNT))

\* fixture of tests/io_regs.cpp: writes of every width on and around the
\* display status register and the line counter, between calls of the two
\* system hooks.  Values written: 0x6438 (LYC 100, all enables), 0xFFFF,
\* 0xA000 (LYC 160); lines 99, 100, 159, 160, 227 and 356 (100 + 256)
IoScript ==
    << [op |-> "write16", addrs |-> {DispstatAddr, DispcntAddr}, vals |-> {25656, 65535}],
       [op |-> "set_vcount", vals |-> {99, 100, 159, 356}],
       [op |-> "set_hblank", vals |-> BOOLEAN],
       [op |-> "write32",
        addrs |-> {DispstatAddr, Add32(IO_BASE, U32(3)), VcountAddr},
        vals |-> {W(65535, 65535), Zero32}],
       [op |-> "write8", addrs |-> {Add32(IO_BASE, U32(k)) : k \in 4..7}, vals |-> {255, 100}],
       [op |-> "set_vcount", vals |-> {0, 100, 160, 227}],
       [op |-> "write16", addrs |-> {Add32(IO_BASE, U32(k)) : k \in 4..7},
        vals |-> {65535, 40960}] >>

\* one word for every handler of step(), with every register field at its
\* largest value: 0x44FF, 0x45FF, 0x46FF, 0x47F8, 0xB5FF, 0xBFFF, 0x19FF,
\* 0x1BFF, 0x1DFF, 0x1FFF, 0x27FF, 0x37FF, 0x3FFF, 0x4FFF, 0x67FF, 0x6FFF,
\* 0x77FF, 0x7FFF, 0xDEFF, 0xE7FF, and 0xFFFF, which no branch takes
SafeInsns ==
    {17663, 17919, 18175, 18424, 46591, 49151, 6655, 7167, 7679, 8191, 10239,
     14335, 16383, 20479, 26623, 28671, 30719, 32767, 57087, 59391, 65535}
\* the last address of every region, block and window and the first one past
\* it, where an offset or a wider access crosses the edge
EdgeAddrs ==
    {W(0, 16383), W(515, 65535), W(768, 32767), W(1024, 1023), W(1535, 65535),
     W(1537, 32767), W(1537, 65535), W(2047, 65535), W(2048, 0), W(2559, 65535),
     W(3583, 65535), W(65535, 65535)}

\* fixture for the bounds of every access: a cartridge of any length, one
\* word per handler, r7 (base and destination of those words) and r13 at the
\* edges of the regions
SafeScript ==
    << [op |-> "load_gamepak", images |-> Images],
       [op |-> "write16", addrs |-> {CodeBase}, vals |-> SafeInsns],
       [op |-> "set_pc", vals |-> {CodeBase}],
       [op |-> "set_reg", idx |-> {7, 13}, vals |-> EdgeAddrs] >>

\* pushes and pops for the round trip: {r0}, {r0,r1}, {r1,r7}, the empty
\* list, and all of r0..r7, each with and without the extra slot (0xB4.. and
\* 0xB5.. run exec_push, 0xB6.. and 0xB7.. run exec_pop)
RoundLists == {1, 3, 130, 0, 255}
RoundPushes == {46080 + x * 256 + l : x \in {0, 1}, l \in RoundLists}
RoundPops == {46592 + x * 256 + l : x \in {0, 1}, l \in RoundLists}
\* what runs between the two: changes of r0, r1, r7, and of the flags
RoundChanges ==
    {Thumb_MOV_imm(0, 0), Thumb_MOV_imm(1, 7), Thumb_ADD_imm(7, 1), Thumb_SUB_reg(0, 0, 1)}
\* stack tops: the end of internal work RAM, external work RAM, an odd
\* address in internal work RAM, and the palette
RoundTops == {W(768, 32768), W(512, 64), W(768, 513), W(1280, 64)}

\* fixture for a push, a change of the low registers and a pop
RoundTripScript ==
    << [op |-> "write16", addrs |-> {CodeBase}, vals |-> RoundPushes],
       [op |-> "write16", addrs |-> {Add32(CodeBase, U32(2))}, vals |-> RoundChanges],
       [op |-> "write16", addrs |-> {Add32(CodeBase, U32(4))}, vals |-> RoundPops],
       [op |-> "set_pc", vals |-> {CodeBase}],
       [op |-> "set_reg", idx |-> {13}, vals |-> RoundTops],
       [op |-> "set_reg", idx |-> {0}, vals |-> {W(4386, 13124), W(32768, 0)}],
       [op |-> "set_reg", idx |-> {1, 7}, vals |-> {W(43707, 52445)}],
       [op |-> "set_reg", idx |-> {14}, vals |-> {Add32(CodeBase, U32(33))}] >>

\* the script of a fixture
ScriptOf(f) ==
    CASE f = "alu" -> AluScript
      [] f = "frame" -> FrameScript
      [] f = "ldst" -> LdStScript
      [] f = "pc" -> PcScript
      [] f = "bus" -> BusScript
      [] f = "map" -> MapScript
      [] f = "rom" -> RomScript
      [] f = "reset" -> ResetScript
      [] f = "shift" -> ShiftScript
      [] f = "logic" -> LogicScript
      [] f = "flow" -> FlowScript
      [] f = "cmp" -> CmpScript
      [] f = "literal" -> LiteralScript
      [] f = "stack" -> StackScript
      [] f = "nop" -> NopScript
      [] f = "exchange" -> ExchangeScript
      [] f = "byte" -> ByteScript
      [] f = "io" -> IoScript
      [] f = "safe" -> SafeScript
      [] f = "roundtrip" -> RoundTripScript

----------------------------------------------------------------------------
(* The state machine.  A run is a test fixture's run (tests/cpu_*.cpp):     *)
(* after construction and reset the fixture makes its set-up calls in the  *)
(* order of its script (debug_set_program_counter, debug_set_reg, bus      *)
(* writes), each with an input drawn from the slot's set, and then calls   *)
(* step() up to MaxSteps times.                                            *)

MaxSteps == 3

S == [regs_ |-> regs_, cpsr_ |-> cpsr_, mmu_ |-> mmu_]

Script == ScriptOf(fixture)

\* history of a call: what was called, the state it started from, and the two
\* calls made before it with the registers each started from
Call(op, insn, addr, value) ==
    [op |-> op, insn |-> insn, addr |-> addr, value |-> value, pre |-> S,
     before |-> [op |-> last.op, insn |-> last.insn, regs_ |-> last.pre.regs_],
     earlier |-> last.before]

\* the state after construction, cpu.reset() and bus.reset()
Constructed(sc) ==
    /\ regs_ = [i \in 0..15 |-> Zero32]
    /\ cpsr_ = kFlagT
    /\ mmu_ = MMU_constructed
    /\ fixture = sc
    /\ ip = 1
    /\ nsteps = 0
    /\ last = [op |-> "init", insn |-> 0, addr |-> Zero32, value |-> Zero32,
               pre |-> [regs_ |-> [i \in 0..15 |-> Zero32], cpsr_ |-> kFlagT,
                        mmu_ |-> MMU_constructed],
               before |-> [op |-> "none", insn |-> 0, regs_ |-> [i \in 0..15 |-> Zero32]],
               earlier |-> [op |-> "none", insn |-> 0, regs_ |-> [i \in 0..15 |-> Zero32]]]

Slot(op) == ip <= Len(Script) /\ Script[ip].op = op

\* the set-up call is made: the fixture moves to its next slot
Advance == ip' = ip + 1 /\ UNCHANGED fixture

Becomes(t) ==
    /\ regs_' = t.regs_
    /\ cpsr_' = t.cpsr_
    /\ mmu_' = t.mmu_

DebugSetProgramCounter ==
    /\ Slot("set_pc")
    /\ \E a \in Script[ip].vals :
          /\ Becomes(debug_set_program_counter(S, a))
          /\ last' = Call("set_pc", 0, a, Zero32)
    /\ Advance
    /\ UNCHANGED nsteps

DebugSetReg ==
    /\ Slot("set_reg")
    /\ \E i \in Script[ip].idx, v \in Script[ip].vals :
          /\ Becomes(debug_set_reg(S, i, v))
          /\ last' = Call("set_reg", i, Zero32, v)
    /\ Advance
    /\ UNCHANGED nsteps

BusWrite8 ==
    /\ Slot("write8")
    /\ \E a \in Script[ip].addrs, v \in Script[ip].vals :
          /\ mmu_' = write8(mmu_, a, v)
          /\ last' = Call("write8", 0, a, U32(v))
    /\ Advance
    /\ UNCHANGED <<regs_, cpsr_, nsteps>>

BusWrite16 ==
    /\ Slot("write16")
    /\ \E a \in Script[ip].addrs, v \in Script[ip].vals :
          /\ mmu_' = write16(mmu_, a, v)
          /\ last' = Call("write16", 0, a, U32(v))
    /\ Advance
    /\ UNCHANGED <<regs_, cpsr_, nsteps>>

BusWrite32 ==
    /\ Slot("write32")
    /\ \E a \in Script[ip].addrs, v \in Script[ip].vals :
          /\ mmu_' = write32(mmu_, a, v)
          /\ last' = Call("write32", 0, a, v)
    /\ Advance
    /\ UNCHANGED <<regs_, cpsr_, nsteps>>

Step ==
    /\ ip > Len(Script)
    /\ nsteps < MaxSteps
    /\ Becomes(step(S))
    /\ last' = Call("step", fetch(S), regs_[kRegPC], Zero32)
    /\ nsteps' = nsteps + 1
    /\ UNCHANGED <<fixture, ip>>

\* bus.load_gamepak(bytes)
LoadGamepak ==
    /\ Slot("load_gamepak")
    /\ \E bytes \in Script[ip].images :
          /\ mmu_' = load_gamepak(mmu_, bytes)
          /\ last' = Call("load_gamepak", 0, Zero32, Zero32)
    /\ Advance
    /\ UNCHANGED <<regs_, cpsr_, nsteps>>

\* bus.load_bios(file); the history keeps the value returned (1 for true)
LoadBios ==
    /\ Slot("load_bios")
    /\ \E file \in Script[ip].files :
          /\ mmu_' = load_bios(mmu_, file)
          /\ last' = Call("load_bios", 0, Zero32, IF file.ok THEN U32(1) ELSE Zero32)
    /\ Advance
    /\ UNCHANGED <<regs_, cpsr_, nsteps>>

\* cpu.reset(), once the set-up is done; not twice in a row
CpuReset ==
    /\ ip > Len(Script)
    /\ last.op # "cpu_reset"
    /\ Becomes(cpu_reset(S))
    /\ last' = Call("cpu_reset", 0, Zero32, Zero32)
    /\ UNCHANGED <<fixture, ip, nsteps>>

\* bus.reset(), once the set-up is done; not twice in a row
BusReset ==
    /\ ip > Len(Script)
    /\ last.op # "bus_reset"
    /\ mmu_' = reset(mmu_)
    /\ last' = Call("bus_reset", 0, Zero32, Zero32)
    /\ UNCHANGED <<regs_, cpsr_, fixture, ip, nsteps>>

\* bus.debug_set_vcount_for_tests(scanline)
DebugSetVcount ==
    /\ Slot("set_vcount")
    /\ \E v \in Script[ip].vals :
          /\ mmu_' = [mmu_ EXCEPT !.io_ = debug_set_vcount_for_tests(mmu_.io_, v)]
          /\ last' = Call("set_vcount", 0, Zero32, U32(v))
    /\ Advance
    /\ UNCHANGED <<regs_, cpsr_, nsteps>>

\* bus.debug_set_hblank_for_tests(inHBlank); the history keeps 1 for true
DebugSetHblank ==
    /\ Slot("set_hblank")
    /\ \E h \in Script[ip].vals :
          /\ mmu_' = [mmu_ EXCEPT !.io_ = debug_set_hblank_for_tests(mmu_.io_, h)]
          /\ last' = Call("set_hblank", 0, Zero32, IF h THEN U32(1) ELSE Zero32)
    /\ Advance
    /\ UNCHANGED <<regs_, cpsr_, nsteps>>

Init == Constructed("alu")

Next == BusWrite16 \/ DebugSetProgramCounter \/ DebugSetReg \/ Step

Spec == Init /\ [][Next]_vars

InitFrame == Constructed("frame")
SpecFrame == InitFrame /\ [][Next]_vars

InitLdSt == Constructed("ldst")
SpecLdSt == InitLdSt /\ [][Next]_vars

InitPC == Constructed("pc")
SpecPC == InitPC /\ [][Next]_vars

InitBus == Constructed("bus")
NextBus == BusWrite8 \/ BusWrite16 \/ BusWrite32
SpecBus == InitBus /\ [][NextBus]_vars

InitMap == Constructed("map")
NextMap == BusWrite8 \/ BusWrite16
SpecMap == InitMap /\ [][NextMap]_vars

InitRom == Constructed("rom")
NextRom == LoadGamepak \/ LoadBios \/ BusWrite8 \/ BusWrite16 \/ BusWrite32 \/ BusReset
SpecRom == InitRom /\ [][NextRom]_vars

InitReset == Constructed("reset")
NextReset ==
    \/ LoadGamepak \/ LoadBios \/ BusWrite8 \/ BusWrite16
    \/ DebugSetProgramCounter \/ DebugSetReg \/ Step \/ CpuReset \/ BusReset
SpecReset == InitReset /\ [][NextReset]_vars

InitShift == Constructed("shift")
SpecShift == InitShift /\ [][Next]_vars

InitLogic == Constructed("logic")
SpecLogic == InitLogic /\ [][Next]_vars

InitFlow == Constructed("flow")
SpecFlow == InitFlow /\ [][Next]_vars

InitCmp == Constructed("cmp")
SpecCmp == InitCmp /\ [][Next]_vars

InitLiteral == Constructed("literal")
NextLiteral == BusWrite16 \/ BusWrite32 \/ DebugSetProgramCounter \/ Step
SpecLiteral == InitLiteral /\ [][NextLiteral]_vars

InitStack == Constructed("stack")
SpecStack == InitStack /\ [][Next]_vars

InitNop == Constructed("nop")
SpecNop == InitNop /\ [][Next]_vars

InitExchange == Constructed("exchange")
NextExchange == BusWrite16 \/ BusWrite32 \/ DebugSetProgramCounter \/ DebugSetReg \/ Step
SpecExchange == InitExchange /\ [][NextExchange]_vars

InitIo == Constructed("io")
NextIo ==
    \/ BusWrite8 \/ BusWrite16 \/ BusWrite32
    \/ DebugSetVcount \/ DebugSetHblank \/ BusReset
SpecIo == InitIo /\ [][NextIo]_vars

InitByte == Constructed("byte")

InitRoundTrip == Constructed("roundtrip")
SpecRoundTrip == InitRoundTrip /\ [][Next]_vars

InitSafe == Constructed("safe")
NextSafe == LoadGamepak \/ BusWrite16 \/ DebugSetProgramCounter \/ DebugSetReg \/ Step
SpecSafe == InitSafe /\ [][NextSafe]_vars
SpecByte == InitByte /\ [][NextExchange]_vars

----------------------------------------------------------------------------
(* Vocabulary of the properties: the instruction set's own encoding tables *)
(* and the status word's bit positions, read without the model's decoder.  *)

\* the top n bits of a 16-bit instruction word
Top(insn, n) == insn \div Pow2(16 - n)
Rd8(insn) == (insn \div 256) % 8      \* bits 10..8
Rn6(insn) == (insn \div 64) % 8       \* bits 8..6
Rs3(insn) == (insn \div 8) % 8        \* bits 5..3
Rd0(insn) == insn % 8                 \* bits 2..0

IsMovImm8(insn) == Top(insn, 5) = 4   \* 00100
IsAddImm8(insn) == Top(insn, 5) = 6   \* 00110
IsSubImm8(insn) == Top(insn, 5) = 7   \* 00111
IsAddReg(insn)  == Top(insn, 7) = 12  \* 0001100
IsSubReg(insn)  == Top(insn, 7) = 13  \* 0001101
IsAddImm3(insn) == Top(insn, 7) = 14  \* 0001110
IsSubImm3(insn) == Top(insn, 7) = 15  \* 0001111
IsAdd(insn) == IsAddImm8(insn) \/ IsAddReg(insn) \/ IsAddImm3(insn)
IsSub(insn) == IsSubImm8(insn) \/ IsSubReg(insn) \/ IsSubImm3(insn)

\* the two operands an add or subtract instruction consumes, from registers r
OperandA(insn, r) == IF Top(insn, 5) \in {6, 7} THEN r[Rd8(insn)] ELSE r[Rs3(insn)]
OperandB(insn, r) ==
    IF Top(insn, 5) \in {6, 7} THEN U32(insn % 256)
    ELSE IF Top(insn, 7) \in {12, 13} THEN r[Rn6(insn)]
    ELSE U32(Rn6(insn))
DestOf(insn) == IF Top(insn, 5) \in {4, 6, 7} THEN Rd8(insn) ELSE Rd0(insn)

FlagN(cpsr) == cpsr.hi \div 32768 = 1          \* bit 31
FlagZ(cpsr) == (cpsr.hi \div 16384) % 2 = 1    \* bit 30
FlagC(cpsr) == (cpsr.hi \div 8192) % 2 = 1     \* bit 29
FlagV(cpsr) == (cpsr.hi \div 4096) % 2 = 1     \* bit 28
NZCV(cpsr) == <<FlagN(cpsr), FlagZ(cpsr), FlagC(cpsr), FlagV(cpsr)>>
Sign(w) == w.hi >= 32768                       \* bit 31 of a u32

Stepped == last.op = "step"

----------------------------------------------------------------------------
(* C1..C3: flags of the data-processing instructions *)

\* C1: after a step that executes an add instruction (ADD Rd,#imm8; ADD Rd,Rs,Rn;
\* ADD Rd,Rs,#imm3) on operands a, b: carry is set iff a + b >= 2^32, that is
\* iff b > 2^32 - 1 - a, and overflow is set iff a and b have the same sign bit
\* and (a + b) mod 2^32 has the other one, whatever C and V were before.
C1_AddCarryOverflow ==
    (Stepped /\ IsAdd(last.insn)) =>
        LET a == OperandA(last.insn, last.pre.regs_)
            b == OperandB(last.insn, last.pre.regs_)
            r == Add32(a, b)
        IN  /\ FlagC(cpsr_) = Ult(Not32(a), b)
            /\ FlagV(cpsr_) = (Sign(a) = Sign(b) /\ Sign(r) # Sign(a))

\* an add that carries and overflows (0x80000000 + 0x80000000) after a step that
\* left C and V clear
C1_Witness ==
    /\ Stepped /\ IsAdd(last.insn)
    /\ FlagC(cpsr_) /\ FlagV(cpsr_)
    /\ ~FlagC(last.pre.cpsr_) /\ ~FlagV(last.pre.cpsr_)
    /\ nsteps = 2

\* C2: after a step that executes a subtract instruction (SUB Rd,#imm8;
\* SUB Rd,Rs,Rn; SUB Rd,Rs,#imm3) on minuend a and subtrahend b: carry is set
\* iff a >= b unsigned, and overflow is set iff a and b have different sign bits
\* and (a - b) mod 2^32 has a sign bit different from a's.
C2_SubCarryOverflow ==
    (Stepped /\ IsSub(last.insn)) =>
        LET a == OperandA(last.insn, last.pre.regs_)
            b == OperandB(last.insn, last.pre.regs_)
            r == Sub32(a, b)
        IN  /\ FlagC(cpsr_) = Uge(a, b)
            /\ FlagV(cpsr_) = (Sign(a) # Sign(b) /\ Sign(r) # Sign(a))

\* a subtraction of equal non-zero operands (no borrow, carry set) and one that
\* overflows are both reached; the witness is the first, after a borrow
C2_Witness ==
    /\ Stepped /\ IsSub(last.insn)
    /\ OperandA(last.insn, last.pre.regs_) = OperandB(last.insn, last.pre.regs_)
    /\ OperandA(last.insn, last.pre.regs_) # Zero32
    /\ FlagC(cpsr_) /\ ~FlagC(last.pre.cpsr_)
    /\ nsteps = 2

\* C3: after a step that executes a flag-setting data-processing instruction
\* (MOV Rd,#imm8; ADD/SUB with imm8, register or imm3 operand) the destination
\* register holds the result mod 2^32, Z is set iff the result is 0 and N iff
\* its bit 31 is 1, whatever N and Z were before.
C3_ResultZeroNegative ==
    (Stepped /\ (IsMovImm8(last.insn) \/ IsAdd(last.insn) \/ IsSub(last.insn))) =>
        LET a == OperandA(last.insn, last.pre.regs_)
            b == OperandB(last.insn, last.pre.regs_)
            r == IF IsMovImm8(last.insn) THEN U32(last.insn % 256)
                 ELSE IF IsAdd(last.insn) THEN Add32(a, b) ELSE Sub32(a, b)
        IN  /\ regs_[DestOf(last.insn)] = r
            /\ FlagZ(cpsr_) = (r = Zero32)
            /\ FlagN(cpsr_) = Sign(r)

\* a zero result (Z set, N clear) right after a step that left N set and Z clear
C3_Witness ==
    /\ Stepped /\ (IsMovImm8(last.insn) \/ IsAdd(last.insn) \/ IsSub(last.insn))
    /\ FlagZ(cpsr_) /\ ~FlagN(cpsr_)
    /\ FlagN(last.pre.cpsr_) /\ ~FlagZ(last.pre.cpsr_)

----------------------------------------------------------------------------
(* C4: alignment of the fetch address *)

\* C4: whenever step() fetches an instruction, the address it fetches from
\* (register 15 as the step found it) has bit 0 clear, in every state reached
\* from reset() through debug_set_program_counter, debug_set_reg on r0..r14 and
\* steps.
C4_FetchAddressEven ==
    Stepped => last.addr.lo % 2 = 0

----------------------------------------------------------------------------
(* C5..C7: which instructions touch the flags *)

IsAddHigh(insn) == Top(insn, 8) = 68  \* 01000100
IsMovHigh(insn) == Top(insn, 8) = 70  \* 01000110
IsStrW(insn)    == Top(insn, 5) = 12  \* 01100
IsLdrW(insn)    == Top(insn, 5) = 13  \* 01101
IsStrB(insn)    == Top(insn, 5) = 14  \* 01110
IsLdrB(insn)    == Top(insn, 5) = 15  \* 01111
IsLdrLit(insn)  == Top(insn, 5) = 9   \* 01001
IsLoad(insn) == IsLdrLit(insn) \/ IsLdrW(insn) \/ IsLdrB(insn)
\* the full register numbers of a high-register instruction: H1:Rd and H2:Rs
HighDest(insn) == Rd0(insn) + 8 * ((insn \div 128) % 2)
HighSrc(insn) == Rs3(insn) + 8 * ((insn \div 64) % 2)

\* C5: a step that executes a high-register ADD, a high-register MOV, a word
\* store or a byte store leaves N, Z, C and V as they were before the step.
C5_StoresAndHighOpsKeepFlags ==
    (Stepped /\ (IsAddHigh(last.insn) \/ IsMovHigh(last.insn)
                 \/ IsStrW(last.insn) \/ IsStrB(last.insn))) =>
        NZCV(cpsr_) = NZCV(last.pre.cpsr_)

\* a high-register ADD into a high register whose sum is zero (a flag-setting
\* add would set Z and clear N), executed with N set and Z clear
C5_Witness ==
    /\ Stepped /\ IsAddHigh(last.insn)
    /\ HighDest(last.insn) >= 8
    /\ regs_[HighDest(last.insn)] = Zero32
    /\ FlagN(last.pre.cpsr_) /\ ~FlagZ(last.pre.cpsr_)
    /\ FlagN(cpsr_) /\ ~FlagZ(cpsr_)

\* the register a load writes
LoadDest(insn) == IF IsLdrLit(insn) THEN Rd8(insn) ELSE Rd0(insn)

\* C6: a step that executes a load (LDR literal, LDR word, LDRB) leaves N, Z, C
\* and V as they were before the step, whatever value is loaded.
C6_LoadsKeepFlags ==
    (Stepped /\ IsLoad(last.insn)) => NZCV(cpsr_) = NZCV(last.pre.cpsr_)

\* C7: after a step that executes a load (LDR literal, LDR word, LDRB), Z is set
\* iff the value now in the destination register is 0, N is set iff its bit 31
\* is 1, and C and V are as they were before the step.
C7_LoadsSetZeroNegativeOnly ==
    (Stepped /\ IsLoad(last.insn)) =>
        LET loaded == regs_[LoadDest(last.insn)]
        IN  /\ FlagZ(cpsr_) = (loaded = Zero32)
            /\ FlagN(cpsr_) = Sign(loaded)
            /\ FlagC(cpsr_) = FlagC(last.pre.cpsr_)
            /\ FlagV(cpsr_) = FlagV(last.pre.cpsr_)

\* a word load of zero right after a subtraction that left N and C set and Z
\* clear: Z becomes set, N clear, C stays set
C7_Witness ==
    /\ Stepped /\ IsLdrW(last.insn)
    /\ regs_[LoadDest(last.insn)] = Zero32
    /\ FlagN(last.pre.cpsr_) /\ ~FlagZ(last.pre.cpsr_) /\ FlagC(last.pre.cpsr_)
    /\ FlagZ(cpsr_) /\ ~FlagN(cpsr_) /\ FlagC(cpsr_)

----------------------------------------------------------------------------
(* C8, C9: word loads and stores at any alignment *)

\* effective address of LDR/STR Rd,[Rb,#imm5*4] over registers r
WordEA(insn, r) == Add32(r[Rs3(insn)], U32(4 * ((insn \div 64) % 32)))
\* A & ~3
AlignedOf(a) == W(a.hi, a.lo - (a.lo % 4))
\* the four bytes of a word, least significant first, and back
ByteOf(w, j) == IF j = 0 THEN w.lo % 256
                ELSE IF j = 1 THEN w.lo \div 256
                ELSE IF j = 2 THEN w.hi % 256 ELSE w.hi \div 256
WordOf(b) == W(b[2] + 256 * b[3], b[0] + 256 * b[1])

\* a word store in the previous step and a word load in this one, both at
\* the same effective address
StoreThenLoad ==
    /\ Stepped /\ IsLdrW(last.insn)
    /\ last.before.op = "step" /\ IsStrW(last.before.insn)
    /\ WordEA(last.before.insn, last.before.regs_) = WordEA(last.insn, last.pre.regs_)

\* the aligned word at a lies in memory that keeps what is written to it:
\* work RAM, palette, the video memory window, object attributes, or an I/O
\* register other than the display status and line counter
KeepsWrites(a) ==
    \/ a.hi \in 512..515
    \/ a.hi = 768 /\ a.lo < 32768
    \/ a.hi = 1024 /\ a.lo < 1024 /\ AlignedOf(a).lo # 4
    \/ a.hi \in 1280..1535
    \/ a.hi \in {1536, 1537}
    \/ a.hi \in 1792..2047

\* C8 as stated: a word store of v at any address followed immediately by a
\* word load at the same address puts v in the destination register.
C8_RoundTripEverywhere ==
    StoreThenLoad =>
        regs_[Rd0(last.insn)] = last.before.regs_[Rd0(last.before.insn)]

\* C8: a word store of v at an address whose aligned word lies in memory that
\* keeps writes, at any alignment, followed immediately by a word load at the
\* same address puts v in the destination register.
C8_RoundTripWritable ==
    (StoreThenLoad /\ KeepsWrites(WordEA(last.insn, last.pre.regs_))) =>
        regs_[Rd0(last.insn)] = last.before.regs_[Rd0(last.before.insn)]

\* 0x11223344 stored at an address with addr & 3 = 3 in internal work RAM and
\* loaded back
C8_Witness ==
    /\ StoreThenLoad
    /\ WordEA(last.insn, last.pre.regs_).hi = 768
    /\ WordEA(last.insn, last.pre.regs_).lo % 4 = 3
    /\ regs_[Rd0(last.insn)] = W(4386, 13124)

\* addresses around the data area and in the other stores, to observe bytes
Probes ==
    {Add32(DataBase, U32(k)) : k \in 0..11}
    \cup {CodeBase, W(768, 255), W(512, 0), W(512, 1), W(1280, 2), W(1536, 3), W(1792, 8)}

----------------------------------------------------------------------------
(* C10: the bus's own 32-bit access *)

\* all of a..a+3 lies in external or internal work RAM
InWorkRam(a) ==
    \/ a.hi \in 512..515 /\ Add32(a, U32(3)).hi \in 512..515
    \/ a.hi = 768 /\ a.lo + 3 < 32768

\* C10: at every address a, read32(a) is read8(a) | read8(a+1)<<8 |
\* read8(a+2)<<16 | read8(a+3)<<24 with no alignment or rotation; write32(a, v)
\* leaves memory as byte writes of v's bytes at a, a+1, a+2, a+3, least
\* significant first, leave it; and when a..a+3 lies in work RAM, aligned or
\* not, after write32(a, v) read32(a) is v, read16(a) the low half of v and
\* read8(a) its low byte.
C10_RawWordAccess ==
    /\ \A a \in BusAddrs :
          read32(mmu_, a) = WordOf([j \in 0..3 |-> read8(mmu_, Add32(a, U32(j)))])
    /\ last.op = "write32" =>
          LET a == last.addr
              v == last.value
              m1 == write8(last.pre.mmu_, a, ByteOf(v, 0))
              m2 == write8(m1, Add32(a, U32(1)), ByteOf(v, 1))
              m3 == write8(m2, Add32(a, U32(2)), ByteOf(v, 2))
              m4 == write8(m3, Add32(a, U32(3)), ByteOf(v, 3))
          IN  /\ mmu_ = m4
              /\ InWorkRam(a) =>
                    /\ read32(mmu_, a) = v
                    /\ read16(mmu_, a) = v.lo
                    /\ read8(mmu_, a) = v.lo % 256

\* write32 of 0x11223344 at an external work RAM address with a & 3 = 1, over
\* bytes that earlier writes had set, read back whole
C10_Witness ==
    /\ last.op = "write32"
    /\ last.addr.hi = 512 /\ last.addr.lo % 4 = 1
    /\ last.value = W(4386, 13124)
    /\ last.pre.mmu_.ewram_ # ZeroStore
    /\ read32(mmu_, last.addr) = W(4386, 13124)
    /\ read8(mmu_, AlignedOf(last.addr)) # 68

----------------------------------------------------------------------------
(* C11..C18: the address map *)

\* the 16 MiB blocks of the palette (0x05xxxxxx) and of object attributes
\* (0x07xxxxxx), by the upper address half
InPalBlock(a) == a.hi \in 1280..1535
InOamBlock(a) == a.hi \in 1792..2047
\* a and b are base + o + k * 1 KiB for the same o, in the same block
Mirrors1K(a, b) ==
    /\ (InPalBlock(a) /\ InPalBlock(b)) \/ (InOamBlock(a) /\ InOamBlock(b))
    /\ a.lo % 1024 = b.lo % 1024
\* the last byte of a 16 MiB block: a halfword there ends in the next region
LastOfBlock(a) == a.hi % 256 = 255 /\ a.lo = 65535
Wrote(op) == last.op = op
\* the addresses read back: the addresses written and their successors
ReadBack == MapAddrs \cup {Add32(a, U32(1)) : a \in MapAddrs}

\* C11 as stated: a byte or a halfword written at one address of the palette
\* or object-attribute block is read back unchanged at every address of the
\* block that differs from it by a multiple of 1 KiB.
C11_MirrorsByteAndHalfword ==
    /\ Wrote("write8") =>
          \A b \in ReadBack :
              Mirrors1K(last.addr, b) => read8(mmu_, b) = last.value.lo
    /\ Wrote("write16") =>
          \A b \in ReadBack :
              Mirrors1K(last.addr, b) => read16(mmu_, b) = last.value.lo

\* C11: a byte written at one address of the palette or object-attribute block
\* is read back unchanged at every address of the block that differs from it
\* by a multiple of 1 KiB; so is a halfword, when neither the address written
\* nor the address read is the last byte of the 16 MiB block.
C11_MirrorsWithinBlock ==
    /\ Wrote("write8") =>
          \A b \in ReadBack :
              Mirrors1K(last.addr, b) => read8(mmu_, b) = last.value.lo
    /\ Wrote("write16") =>
          \A b \in ReadBack :
              (Mirrors1K(last.addr, b) /\ ~LastOfBlock(last.addr) /\ ~LastOfBlock(b)) =>
                  read16(mmu_, b) = last.value.lo

\* a halfword written at the last offset of the first palette mirror
\* (0x050003FF, second byte in the next mirror) and read back whole at the
\* same offset in the block's last full mirror but one
C11_Witness ==
    /\ Wrote("write16")
    /\ last.addr = W(1280, 1023)
    /\ read16(mmu_, W(1535, 64511)) = last.value.lo
    /\ read16(last.pre.mmu_, W(1535, 64511)) # last.value.lo
    /\ read8(mmu_, W(1535, 64512)) = last.value.lo \div 256

\* the 128 KiB video memory window 0x06000000..0x0601FFFF and the distance of
\* an address in it from VRAM_BASE
InVramWindow(a) == a.hi \in {1536, 1537}
VramOff(a) == (a.hi - 1536) * 65536 + a.lo
\* a and b are VRAM_BASE + o and VRAM_BASE + 96 KiB + o for some o < 32 KiB
VramAlias(a, b) ==
    /\ InVramWindow(a) /\ InVramWindow(b)
    /\ \/ VramOff(a) < 32768 /\ VramOff(b) = VramOff(a) + 98304
       \/ VramOff(b) < 32768 /\ VramOff(a) = VramOff(b) + 98304

\* C12: after a byte write at an address a of the video memory window, the
\* byte is read back at a and, when a is VRAM_BASE + o or VRAM_BASE + 96 KiB + o
\* with o < 32 KiB, at the other of the two; every other address, in
\* particular every VRAM_BASE + o with 32 KiB <= o < 96 KiB other than a, reads
\* what it read before.
C12_VramTailAliasesHead ==
    (Wrote("write8") /\ InVramWindow(last.addr)) =>
        \A b \in ReadBack :
            IF b = last.addr \/ VramAlias(last.addr, b)
            THEN read8(mmu_, b) = last.value.lo
            ELSE read8(mmu_, b) = read8(last.pre.mmu_, b)

\* a byte written at VRAM_BASE + 128 KiB - 1 shows at VRAM_BASE + 32 KiB - 1,
\* and the cell at VRAM_BASE + 96 KiB - 1 keeps the different byte it held
C12_Witness ==
    /\ Wrote("write8") /\ last.addr = W(1537, 65535)
    /\ read8(mmu_, W(1536, 32767)) = last.value.lo
    /\ read8(last.pre.mmu_, W(1536, 32767)) # last.value.lo
    /\ read8(mmu_, W(1537, 32767)) \notin {0, last.value.lo}

\* offsets into a 32 MiB cartridge window: the first bytes, the middle, the end
WindowOffsets == {0, 1, 2, 3, 4, 5, 6, 7, 1000003, 16777216, 33554430, 33554431}
\* the address d bytes into the window whose base has upper half baseHi
\* (0x0800, 0x0A00, 0x0C00)
InWindowAt(baseHi, d) == W(baseHi + d \div 65536, d % 65536)
\* the loaded cartridge image and its byte at 0-based index i
Image == mmu_.gamepak_
ImageAt(i) == Image[i + 1]

\* C13: with a non-empty cartridge image of length n loaded, for every offset
\* d < 32 MiB the addresses WS0_BASE + d, WS1_BASE + d and WS2_BASE + d read the
\* same byte, image[d mod n]; at offset n every window reads image[0].
C13_WindowsMirrorImage ==
    Len(Image) > 0 =>
        /\ \A d \in WindowOffsets, baseHi \in {2048, 2560, 3072} :
              read8(mmu_, InWindowAt(baseHi, d)) = ImageAt(d % Len(Image))
        /\ \A baseHi \in {2048, 2560, 3072} :
              read8(mmu_, InWindowAt(baseHi, Len(Image))) = ImageAt(0)

\* the 4-byte image 0xDE 0xAD 0xBE 0xEF: every window reads 0xDE at offset 4
\* and 0xEF at its last byte
C13_Witness ==
    /\ Image = <<222, 173, 190, 239>>
    /\ read8(mmu_, W(2560, 4)) = 222
    /\ read8(mmu_, W(3072, 4)) = 222
    /\ read8(mmu_, W(2559, 65535)) = 239
    /\ Wrote("write8")

\* cartridge addresses: every window offset in every window
CartAddrs == {InWindowAt(baseHi, d) : baseHi \in {2048, 2560, 3072}, d \in WindowOffsets}
\* addr - 0x08000000 for a cartridge address
FromFirstWindow(a) == (a.hi - 2048) * 65536 + a.lo
\* addr minus the base of the 32 MiB window addr lies in
FromOwnWindow(a) == ((a.hi - 2048) % 512) * 65536 + a.lo

InBios(a) == a.hi = 0 /\ a.lo < 16384
InEwram(a) == a.hi \in 512..515
InIwram(a) == a.hi = 768 /\ a.lo < 32768
InIo(a) == a.hi = 1024 /\ a.lo < 1024
InCart(a) == a.hi \in 2048..3583
\* a lies in no region's window
InNoRegion(a) ==
    ~(InBios(a) \/ InEwram(a) \/ InIwram(a) \/ InIo(a) \/ InPalBlock(a)
      \/ InVramWindow(a) \/ InOamBlock(a) \/ InCart(a))
\* a byte written at a is to be discarded
ReadOnlyOrUnmapped(a) == InBios(a) \/ InCart(a) \/ InNoRegion(a)

\* the last call was a bus write; its width in bytes and its j-th target
WroteAny == last.op \in {"write8", "write16", "write32"}
WidthOfWrite == IF last.op = "write8" THEN 1 ELSE IF last.op = "write16" THEN 2 ELSE 4
Target(j) == Add32(last.addr, U32(j))
\* memory after writing only byte j of the last write, if it is to be kept
KeepByte(m, j) ==
    IF j < WidthOfWrite /\ ~ReadOnlyOrUnmapped(Target(j))
    THEN write8(m, Target(j), ByteOf(last.value, j)) ELSE m
\* addresses read before and after: three bytes around every address written
RomReadBack == {Add32(a, U32(j)) : a \in RomAddrs, j \in 0..3} \cup CartAddrs

\* C15: every byte of a write8/write16/write32 that targets the firmware
\* region (loaded or not), a cartridge window or an address in no region is
\* discarded: memory is as the write's other bytes alone leave it, and when
\* all its bytes are such, read8 at every address returns what it did before.
C15_ReadOnlyWritesDiscarded ==
    WroteAny =>
        /\ mmu_ = KeepByte(KeepByte(KeepByte(KeepByte(last.pre.mmu_, 0), 1), 2), 3)
        /\ (\A j \in 0..(WidthOfWrite - 1) : ReadOnlyOrUnmapped(Target(j))) =>
               /\ mmu_ = last.pre.mmu_
               /\ \A b \in RomReadBack : read8(mmu_, b) = read8(last.pre.mmu_, b)

\* a 32-bit write at 0xFFFFFFFF (one unmapped byte, three in the loaded
\* firmware) with a cartridge loaded: the firmware bytes are as loaded
C15_Witness ==
    /\ Wrote("write32") /\ last.addr = W(65535, 65535)
    /\ mmu_.bios_loaded_
    /\ read8(mmu_, W(0, 0)) = 17 /\ read8(mmu_, W(0, 2)) = 51
    /\ Len(Image) = 4 /\ read8(mmu_, W(2048, 0)) = 222

\* firmware addresses: the first bytes and the last four of the region
BiosEdge == {W(0, 0), W(0, 1), W(0, 2), W(0, 16380), W(0, 16381), W(0, 16382), W(0, 16383)}
\* every width reads the open-bus byte in every lane at a
ReadsOpenBus(a) ==
    /\ read8(mmu_, a) = 255
    /\ read16(mmu_, a) = 65535
    /\ read32(mmu_, a) = W(65535, 65535)
\* no firmware is loaded: none has been offered yet, the load just made
\* returned false, the bus was just reset, or the MMU's flag says so
NoFirmware ==
    \/ ip <= 2 /\ fixture = "rom"
    \/ Wrote("load_bios") /\ last.value = Zero32
    \/ Wrote("bus_reset")
    \/ ~mmu_.bios_loaded_

\* C16: while no firmware is loaded (after construction, after a failed load,
\* after reset(), and after any writes to the firmware region) read8, read16
\* and read32 at every firmware address return 0xFF, 0xFFFF and 0xFFFFFFFF,
\* also where the upper bytes of the read lie past the end of the region.
C16_FirmwareOpenBusUntilLoaded ==
    NoFirmware => \A a \in BiosEdge : ReadsOpenBus(a)

\* reset() after firmware was loaded and read as loaded: the region's last
\* three bytes and the byte after them read 0xFFFFFFFF
C16_Witness ==
    /\ Wrote("bus_reset")
    /\ last.pre.mmu_.bios_loaded_
    /\ read8(last.pre.mmu_, W(0, 0)) = 17
    /\ read32(mmu_, W(0, 16381)) = W(65535, 65535)
    /\ read8(mmu_, W(0, 0)) = 255

\* addresses in no region: right above each work RAM, the I/O block and the
\* video memory window, the ends of those gaps, and the unused top and bottom
Gaps ==
    {W(516, 0), W(516, 1), W(767, 65535), W(768, 32768), W(1023, 65535),
     W(1024, 1024), W(1279, 65535), W(1538, 0), W(1538, 1), W(1791, 65535),
     W(0, 16384), W(511, 65535), W(3584, 0), W(4096, 0), W(65535, 65535)}

\* C17: after any writes, read8 of an address that lies in no region's window
\* returns 0xFF: the addresses right above external work RAM (0x02040000),
\* internal work RAM (0x03008000) and the video memory window (0x06020000) do
\* not show work RAM or video memory contents.
C17_UnmappedReadsOpenBus ==
    \A b \in Gaps \cup ReadBack : InNoRegion(b) => read8(mmu_, b) = 255

\* a byte written right above external work RAM, with the last byte of
\* external work RAM holding data: the address still reads 0xFF
C17_Witness ==
    /\ Wrote("write8") /\ last.addr = W(516, 0)
    /\ read8(mmu_, W(515, 65535)) = 239
    /\ read8(mmu_, W(516, 0)) = 255
    /\ \A b \in Gaps : InNoRegion(b)

\* a resolves to a cell of a writable store
InWritableStore(a) ==
    InEwram(a) \/ InIwram(a) \/ InPalBlock(a) \/ InVramWindow(a) \/ InOamBlock(a)
\* a and b resolve to the same cell under their region's mirroring rule: work
\* RAM has none, palette and object attributes repeat every 1 KiB, the tail of
\* the video memory window repeats its head
SameCell(a, b) == a = b \/ Mirrors1K(a, b) \/ VramAlias(a, b)

\* C18: after write8(a, v) with a in external or internal work RAM, palette,
\* video memory or object-attribute memory, read8(b) is v at a and at every b
\* that resolves to the same cell as a, and read8 at every other address is
\* what it was before the write.
C18_WriteReachesOneCell ==
    (Wrote("write8") /\ InWritableStore(last.addr)) =>
        \A b \in ReadBack \cup Gaps :
            IF SameCell(last.addr, b)
            THEN read8(mmu_, b) = last.value.lo
            ELSE read8(mmu_, b) = read8(last.pre.mmu_, b)

\* a byte written through the second object-attribute mirror (0x07000408)
\* replaces the byte at 0x07000008 and leaves its neighbour at 0x07000009
C18_Witness ==
    /\ Wrote("write8") /\ last.addr = W(1792, 1032)
    /\ read8(last.pre.mmu_, W(1792, 8)) = 239
    /\ read8(mmu_, W(1792, 8)) = last.value.lo
    /\ read8(mmu_, W(1792, 9)) = 190

----------------------------------------------------------------------------
(* C19: reset *)

\* the last two calls were cpu.reset() and bus.reset(), in either order
BothReset ==
    \/ Wrote("bus_reset") /\ last.before.op = "cpu_reset"
    \/ Wrote("cpu_reset") /\ last.before.op = "bus_reset"
\* bit 5 of the status word
FlagT(cpsr) == (cpsr.lo \div 32) % 2 = 1
\* addresses of the clearable stores: those the fixture writes, the program,
\* and the first and last byte of each store
Clearable ==
    {W(512, 7), W(1280, 5), W(1536, 9), W(1792, 3), DataBase, CodeBase,
     Add32(CodeBase, U32(1)), W(512, 0), W(515, 65535), W(768, 32767), W(1280, 1023),
     W(1536, 0), W(1537, 32767), W(1792, 1023)}

\* C19: right after cpu.reset() and bus.reset(), whatever steps, writes and
\* loads came before: all 16 registers are 0, the status word has T set and
\* N, Z, C, V clear, every byte of external and internal work RAM, palette,
\* video memory and object attributes reads 0, and the firmware region and the
\* three cartridge windows read 0xFF.
C19_ResetClearsEverything ==
    BothReset =>
        /\ \A i \in 0..15 : regs_[i] = Zero32
        /\ FlagT(cpsr_) /\ NZCV(cpsr_) = <<FALSE, FALSE, FALSE, FALSE>>
        /\ \A b \in Clearable : read8(mmu_, b) = 0
        /\ \A b \in BiosEdge \cup CartAddrs : read8(mmu_, b) = 255

\* both resets after firmware and a cartridge were loaded, memory written and
\* a subtraction run that left registers and flags set
C19_Witness ==
    /\ Wrote("cpu_reset") /\ last.before.op = "bus_reset"
    /\ nsteps >= 1
    /\ last.pre.regs_[3] # Zero32 /\ last.pre.regs_[kRegPC] # Zero32
    /\ FlagN(last.pre.cpsr_)
    /\ regs_[3] = Zero32 /\ ~FlagN(cpsr_)
    /\ read8(mmu_, CodeBase) = 0

----------------------------------------------------------------------------
(* C20: shifts by an immediate *)

IsLslImm(insn) == Top(insn, 5) = 0    \* 00000
IsLsrImm(insn) == Top(insn, 5) = 1    \* 00001
IsAsrImm(insn) == Top(insn, 5) = 2    \* 00010
Imm5(insn) == (insn \div 64) % 32     \* bits 10..6
\* v shifted right by n with copies of its sign bit shifted in
Asr32(v, n) == IF Sign(v) THEN Not32(Shr32(Not32(v), n)) ELSE Shr32(v, n)
\* the value a shift-by-immediate word computes from v
Shifted(insn, v) ==
    IF IsLslImm(insn) THEN Shl32(v, Imm5(insn))
    ELSE IF IsLsrImm(insn) THEN Shr32(v, Imm5(insn))
    ELSE Asr32(v, Imm5(insn))

\* C20: a step that executes a shift-by-immediate word (LSL, LSR, ASR with
\* imm5 in bits 10..6, Rs in bits 5..3, Rd in bits 2..0) puts in Rd the value
\* of Rs shifted by imm5 and sets Z iff that result is 0; with r0 = 0x55,
\* LSL r1, r0, #2 gives r1 = 0x154 with Z clear.
C20_ShiftByImmediate ==
    (Stepped /\ (IsLslImm(last.insn) \/ IsLsrImm(last.insn) \/ IsAsrImm(last.insn))) =>
        LET r == Shifted(last.insn, last.pre.regs_[Rs3(last.insn)])
        IN  /\ regs_[Rd0(last.insn)] = r
            /\ FlagZ(cpsr_) = (r = Zero32)

----------------------------------------------------------------------------
(* C21, C22: compare with an immediate, register logical operations *)

IsCmpImm(insn) == Top(insn, 5) = 5    \* 00101
IsAluReg(insn) == Top(insn, 6) = 16   \* 010000
AluOp(insn) == (insn \div 64) % 16    \* bits 9..6
IsLogical(insn) == IsAluReg(insn) /\ AluOp(insn) \in {0, 1, 12, 14, 15}
\* the value a register logical operation computes from d (Rd) and v (Rs)
Logical(insn, d, v) ==
    CASE AluOp(insn) = 0 -> And32(d, v)             \* AND
      [] AluOp(insn) = 1 -> Xor32(d, v)             \* EOR
      [] AluOp(insn) = 12 -> Or32(d, v)             \* ORR
      [] AluOp(insn) = 14 -> And32(d, Not32(v))     \* BIC
      [] OTHER -> Not32(v)                          \* MVN

\* C21: a step that executes compare-immediate (top five bits 00101, register
\* in bits 10..8, imm8 in bits 7..0) sets the flags as for Rd - imm8: Z iff
\* Rd = imm8, N iff bit 31 of the difference is 1, C iff Rd >= imm8 unsigned;
\* Rd is unchanged.  r0 = 0x10 compared with 0x20 gives N set, Z and C clear.
C21_CompareImmediate ==
    (Stepped /\ IsCmpImm(last.insn)) =>
        LET a == last.pre.regs_[Rd8(last.insn)]
            b == U32(last.insn % 256)
        IN  /\ FlagZ(cpsr_) = (a = b)
            /\ FlagN(cpsr_) = Sign(Sub32(a, b))
            /\ FlagC(cpsr_) = Uge(a, b)
            /\ regs_[Rd8(last.insn)] = a

\* C22: a step that executes a register ALU word (top six bits 010000,
\* operation in bits 9..6, Rs in bits 5..3, Rd in bits 2..0) with operation
\* AND, EOR, ORR, BIC or MVN puts in Rd the value Rd AND Rs, Rd XOR Rs,
\* Rd OR Rs, Rd AND NOT Rs, NOT Rs, sets Z and N from that value and leaves C
\* and V as they were.
C22_RegisterLogicalOps ==
    (Stepped /\ IsLogical(last.insn)) =>
        LET r == Logical(last.insn, last.pre.regs_[Rd0(last.insn)],
                         last.pre.regs_[Rs3(last.insn)])
        IN  /\ regs_[Rd0(last.insn)] = r
            /\ FlagZ(cpsr_) = (r = Zero32)
            /\ FlagN(cpsr_) = Sign(r)
            /\ FlagC(cpsr_) = FlagC(last.pre.cpsr_)
            /\ FlagV(cpsr_) = FlagV(last.pre.cpsr_)

----------------------------------------------------------------------------
(* C23: mode exchange *)

IsBx(insn) == Top(insn, 8) = 71       \* 01000111
\* the value an instruction reads from register i: r15 reads as the address
\* after the fetch, the instruction's own address + 2
ValueRead(i) == IF i = 15 THEN Add32(last.addr, U32(2)) ELSE last.pre.regs_[i]
Bit0(w) == w.lo % 2 = 1
Bit1(w) == (w.lo \div 2) % 2 = 1
ClearBit0(w) == W(w.hi, w.lo - (w.lo % 2))
LowRegsKept == \A i \in 0..14 : regs_[i] = last.pre.regs_[i]

\* C23: a step that executes BX Rs (Rs any of r0..r15): if bit 0 of the value
\* of Rs is 1 the program counter becomes that value with bit 0 cleared and T
\* stays set; if bit 0 is 0 the program counter becomes that value with bits 0
\* and 1 cleared and T is cleared; N, Z, C, V and r0..r14 are unchanged.
C23_ModeExchange ==
    (Stepped /\ IsBx(last.insn)) =>
        LET v == ValueRead(HighSrc(last.insn))
        IN  /\ Bit0(v) => regs_[15] = ClearBit0(v) /\ FlagT(cpsr_)
            /\ ~Bit0(v) => regs_[15] = AlignedOf(v) /\ ~FlagT(cpsr_)
            /\ NZCV(cpsr_) = NZCV(last.pre.cpsr_)
            /\ LowRegsKept

\* an exchange to the wider mode: the status word had T and N set; BX through
\* a high register with an even target whose bit 1 is set clears T and both
\* low bits of the target
C23_Witness ==
    /\ Stepped /\ IsBx(last.insn) /\ HighSrc(last.insn) = 8
    /\ Bit1(last.pre.regs_[8]) /\ ~Bit0(last.pre.regs_[8])
    /\ FlagT(last.pre.cpsr_) /\ FlagN(last.pre.cpsr_)
    /\ ~FlagT(cpsr_) /\ regs_[15] = DataBase

----------------------------------------------------------------------------
(* C28, C29: branches *)

IsBcond(insn) == Top(insn, 4) = 13    \* 1101
IsB(insn) == Top(insn, 5) = 28        \* 11100
CondOf(insn) == (insn \div 256) % 16  \* bits 11..8
\* 2 * signext8(imm8) and signext12(2 * imm11), as 32-bit two's complement
Disp8(insn) ==
    LET imm8 == insn % 256
    IN  IF imm8 < 128 THEN U32(2 * imm8) ELSE Sub32(Zero32, U32(2 * (256 - imm8)))
Disp11(insn) ==
    LET off == 2 * (insn % 2048)
    IN  IF off < 2048 THEN U32(off) ELSE Sub32(Zero32, U32(4096 - off))
\* the predicate of condition c on a status word
Holds(c, cpsr) ==
    LET N == FlagN(cpsr)
        Z == FlagZ(cpsr)
        C == FlagC(cpsr)
        V == FlagV(cpsr)
    IN  <<Z, ~Z, C, ~C, N, ~N, V, ~V, C /\ ~Z, ~C \/ Z, N = V, N # V,
          ~Z /\ (N = V), Z \/ (N # V), TRUE, FALSE>>[c + 1]
\* the address after the instruction just fetched
NextInsn == Add32(last.addr, U32(2))

\* C28: a step that executes a conditional branch at address A with condition
\* c and immediate imm8 sets the program counter to A + 2 + 2*signext8(imm8)
\* iff the predicate of c holds on the flags before the step, else to A + 2;
\* the predicates for c = 0..15 are Z; not Z; C; not C; N; not N; V; not V;
\* C and not Z; not C or Z; N = V; N /= V; not Z and N = V; Z or N /= V;
\* always; never.  No flag and no register other than r15 is modified.
C28_ConditionalBranch ==
    (Stepped /\ IsBcond(last.insn)) =>
        /\ regs_[15] = IF Holds(CondOf(last.insn), last.pre.cpsr_)
                       THEN Add32(NextInsn, Disp8(last.insn)) ELSE NextInsn
        /\ cpsr_ = last.pre.cpsr_
        /\ LowRegsKept

\* a backward branch taken on "unsigned higher" (C set, Z clear) with V set,
\* and the program counter below the instruction
C28_Witness ==
    /\ Stepped /\ IsBcond(last.insn) /\ CondOf(last.insn) = 8
    /\ last.insn % 256 = 128
    /\ FlagC(last.pre.cpsr_) /\ ~FlagZ(last.pre.cpsr_) /\ FlagV(last.pre.cpsr_)
    /\ regs_[15] = Sub32(last.addr, U32(254))

\* C29: a step that executes the unconditional branch (top five bits 11100)
\* at address A with immediate imm11 sets the program counter to
\* A + 2 + signext12(2*imm11), forward or backward, and changes no other
\* register and no flag; a displacement of +2 skips exactly the next
\* instruction.
C29_UnconditionalBranch ==
    (Stepped /\ IsB(last.insn)) =>
        /\ regs_[15] = Add32(NextInsn, Disp11(last.insn))
        /\ last.insn % 2048 = 1 => regs_[15] = Add32(last.addr, U32(4))
        /\ cpsr_ = last.pre.cpsr_
        /\ LowRegsKept

\* the farthest backward branch: imm11 = 0x400 lands 2046 bytes below the
\* instruction, with the flags a subtraction left kept
C29_Witness ==
    /\ Stepped /\ IsB(last.insn) /\ last.insn % 2048 = 1024
    /\ regs_[15] = Sub32(last.addr, U32(2046))
    /\ FlagN(cpsr_) /\ nsteps = 2

----------------------------------------------------------------------------
(* C24: high-register compare *)

IsCmpHigh(insn) == Top(insn, 8) = 69  \* 01000101

\* C24: a step that executes CMP Rd/Hd, Rs/Hs (register numbers H1:Rd and
\* H2:Rs) sets N, Z, C, V from value(Rd) - value(Rs): Z iff the difference is
\* 0, N iff its bit 31 is 1, C iff value(Rd) >= value(Rs) unsigned, V iff the
\* operands differ in sign and the difference differs in sign from value(Rd);
\* no register changes other than the program counter advancing by 2.
C24_CompareHighSetsFlagsOnly ==
    (Stepped /\ IsCmpHigh(last.insn)) =>
        LET a == ValueRead(HighDest(last.insn))
            b == ValueRead(HighSrc(last.insn))
            r == Sub32(a, b)
        IN  /\ NZCV(cpsr_) = <<Sign(r), r = Zero32, Uge(a, b),
                               Sign(a) # Sign(b) /\ Sign(r) # Sign(a)>>
            /\ LowRegsKept
            /\ regs_[15] = NextInsn

\* a compare of a high register against a larger low register (5 against
\* 0x80000000): borrow and overflow, after a step that left Z set and N clear
C24_Witness ==
    /\ Stepped /\ IsCmpHigh(last.insn)
    /\ HighDest(last.insn) = 8 /\ HighSrc(last.insn) = 1
    /\ last.pre.regs_[8] = W(0, 5) /\ last.pre.regs_[1] = W(32768, 0)
    /\ NZCV(cpsr_) = <<TRUE, FALSE, FALSE, TRUE>>
    /\ FlagZ(last.pre.cpsr_) /\ ~FlagN(last.pre.cpsr_)
    /\ regs_[8] = W(0, 5)

----------------------------------------------------------------------------
(* C25: address of the PC-relative literal load *)

\* the little-endian word held by the four bytes at a, a+1, a+2, a+3 of the
\* memory the step started from
WordBefore(a) == WordOf([j \in 0..3 |-> read8(last.pre.mmu_, Add32(a, U32(j)))])
\* (((A + 2) + 2) AND NOT 3) + 4*imm8 for the instruction at last.addr
LiteralAddress ==
    Add32(AlignedOf(Add32(Add32(last.addr, U32(2)), U32(2))), U32(4 * (last.insn % 256)))

\* C25: a step that executes the PC-relative literal load at address A with
\* immediate imm8 loads Rd from the word at (((A + 2) + 2) AND NOT 3) + 4*imm8
\* (mod 2^32), whether A is word-aligned or not; not from A + 4*imm8 or
\* (A + 2) + 4*imm8.
C25_LiteralAddress ==
    (Stepped /\ IsLdrLit(last.insn)) =>
        regs_[Rd8(last.insn)] = WordBefore(LiteralAddress)

\* a literal load at a word-aligned A with imm8 = 1: Rd gets the word at
\* A + 8, and the words at A + 4 and at (A + 2) + 4 are different from it
C25_Witness ==
    /\ Stepped /\ IsLdrLit(last.insn)
    /\ last.addr.lo % 4 = 0 /\ last.insn % 256 = 1
    /\ regs_[Rd8(last.insn)] = W(21862, 30600)
    /\ WordBefore(Add32(last.addr, U32(4))) = W(4386, 13124)
    /\ WordBefore(Add32(last.addr, U32(6))) # W(21862, 30600)

----------------------------------------------------------------------------
(* C26, C27: the stack instructions.  The properties are about the push and *)
(* pop routines, so they are stated for the words step() gives to them.     *)

RunsPush(insn) == decode(insn) = "push"
RunsPop(insn) == decode(insn) = "pop"
\* the register list L (bits 7..0) and the extra slot (bit 8)
ListOf(insn) == {i \in 0..7 : (insn \div Pow2(i)) % 2 = 1}
ExtraSlot(insn) == (insn \div 256) % 2 = 1
\* k for the k-th lowest-indexed register of L
RankIn(insn, i) == Cardinality({j \in ListOf(insn) : j < i})
\* n: the words the instruction transfers
WordsOf(insn) == Cardinality(ListOf(insn)) + (IF ExtraSlot(insn) THEN 1 ELSE 0)
\* the little-endian word now held by the four bytes at a .. a+3
WordNow(a) == WordOf([j \in 0..3 |-> read8(mmu_, Add32(a, U32(j)))])
SPBefore == last.pre.regs_[13]
\* SP - 4n
PushedTo == Sub32(SPBefore, U32(4 * WordsOf(last.insn)))
\* a lies in the len bytes from lo on
InRange(a, lo, len) == Ult(Sub32(a, lo), U32(len))
\* addresses around the stack pointer t: 40 below and 4 from it on, the 1 KiB
\* mirror images of the 8 below it, and the program
StackProbes(t) ==
    {Sub32(t, U32(k)) : k \in 1..40} \cup {Add32(t, U32(k)) : k \in 0..3}
    \cup {Add32(t, U32(1024 - k)) : k \in 1..8}
    \cup {CodeBase, Add32(CodeBase, U32(2))}
\* the byte that has to be at address a of the pushed range starting at lo
PushedByte(a, lo) ==
    LET d == Off(Sub32(a, lo))
        k == d \div 4
        src == IF k = Cardinality(ListOf(last.insn)) THEN 14
               ELSE CHOOSE i \in ListOf(last.insn) : RankIn(last.insn, i) = k
    IN  ByteOf(last.pre.regs_[src], d % 4)
\* the register and flag part of the push: r13 becomes SP - 4n, r15 advances,
\* nothing else changes
PushFrame ==
    /\ regs_[13] = PushedTo
    /\ \A i \in 0..14 \ {13} : regs_[i] = last.pre.regs_[i]
    /\ cpsr_ = last.pre.cpsr_

\* C26: a step that executes PUSH with register list L (a subset of r0..r7)
\* and optional link register, n = |L| + (1 if the link register is selected):
\* the stack pointer becomes SP - 4n; the k-th lowest-indexed register of L is
\* stored as a little-endian word at (SP - 4n) + 4k and the link register, if
\* selected, last at (SP - 4n) + 4|L|; no register other than r13 and r15 and
\* no flag changes, and no memory byte outside [SP - 4n, SP) changes.
C26_PushStoresBelowStackPointer ==
    (Stepped /\ RunsPush(last.insn)) =>
        LET lo == PushedTo
            len == 4 * WordsOf(last.insn)
        IN  /\ PushFrame
            /\ \A i \in ListOf(last.insn) :
                  WordNow(Add32(lo, U32(4 * RankIn(last.insn, i)))) = last.pre.regs_[i]
            /\ ExtraSlot(last.insn) =>
                  WordNow(Add32(lo, U32(4 * Cardinality(ListOf(last.insn)))))
                      = last.pre.regs_[14]
            /\ \A a \in StackProbes(SPBefore) :
                  ~InRange(a, lo, len) => read8(mmu_, a) = read8(last.pre.mmu_, a)

\* C26 as the code has it: the register and flag part holds for every stack
\* pointer; every byte of [SP - 4n, SP) that lies in memory that keeps writes
\* (work RAM, palette, video memory, object attributes) holds the byte of the
\* register stored there; and no byte changes that is neither in the range
\* nor a mirror image of a byte in it.
C26_PushStoresWhereWritable ==
    (Stepped /\ RunsPush(last.insn)) =>
        LET lo == PushedTo
            len == 4 * WordsOf(last.insn)
            pushed == {Add32(lo, U32(d)) : d \in 0..(len - 1)}
        IN  /\ PushFrame
            /\ \A a \in pushed : InWritableStore(a) => read8(mmu_, a) = PushedByte(a, lo)
            /\ \A a \in StackProbes(SPBefore) :
                  (\A b \in pushed : ~SameCell(a, b)) =>
                      read8(mmu_, a) = read8(last.pre.mmu_, a)

\* PUSH {r0-r7, lr} with the stack pointer at the end of internal work RAM:
\* 36 bytes down, r0 at the new stack pointer, r7 above it, lr in the last word
C26_Witness ==
    /\ Stepped /\ RunsPush(last.insn)
    /\ ListOf(last.insn) = 0..7 /\ ExtraSlot(last.insn)
    /\ SPBefore = W(768, 32768)
    /\ regs_[13] = W(768, 32732)
    /\ WordNow(W(768, 32732)) = W(4386, 13124)
    /\ WordNow(W(768, 32760)) = W(43707, 52445)
    /\ WordNow(W(768, 32764)) = Add32(CodeBase, U32(33))
    /\ read8(mmu_, W(768, 32731)) = 0

----------------------------------------------------------------------------
(* C30: words that match no instruction pattern *)

\* the word matches one of the patterns step() has a routine for
Implemented(insn) ==
    \/ Top(insn, 8) \in {68, 69, 70, 71}              \* high-register ops, BX
    \/ RunsPush(insn) \/ RunsPop(insn)
    \/ Top(insn, 7) \in {12, 13, 14, 15}              \* add/subtract
    \/ Top(insn, 5) \in {4, 6, 7}                     \* MOV/ADD/SUB imm8
    \/ Top(insn, 5) \in {9, 12, 13, 14, 15}           \* loads and stores
    \/ Top(insn, 4) = 13                              \* conditional branch
    \/ Top(insn, 5) = 28                              \* branch

\* C30: a step whose fetched word matches no implemented pattern is a silent
\* no-op: the program counter advances by 2; every other register, the whole
\* status word and all memory are unchanged.
C30_UnknownWordIsNoOp ==
    (Stepped /\ ~Implemented(last.insn)) =>
        /\ regs_[15] = NextInsn
        /\ LowRegsKept
        /\ cpsr_ = last.pre.cpsr_
        /\ mmu_ = last.pre.mmu_

\* the word 0xFFFF after a subtraction that left N and C set, with r0 and r1
\* non-zero: the second step only moves the program counter
C30_Witness ==
    /\ Stepped /\ last.insn = 65535 /\ ~Implemented(last.insn)
    /\ nsteps = 2
    /\ FlagN(cpsr_) /\ FlagC(cpsr_)
    /\ regs_[0] # Zero32 /\ regs_[1] # Zero32
    /\ regs_[15] = Add32(CodeBase, U32(4))

----------------------------------------------------------------------------
(* C31: steps after an exchange to the wider mode *)

\* the step started with the width-mode flag clear
FlagWasClear == Stepped /\ ~FlagT(last.pre.cpsr_)
\* the step is an exchange: BX, or a pop with the return-address slot
IsExchange(insn) == IsBx(insn) \/ (RunsPop(insn) /\ ExtraSlot(insn))
\* the state the same step produces when it starts with the flag set
WithFlagSet == step([last.pre EXCEPT !.cpsr_ = Or32(last.pre.cpsr_, kFlagT)])

\* C31 as stated: once an exchange (BX, or POP into the program counter, with
\* bit 0 of the target clear) has cleared the width-mode flag, every later
\* step treats the fetched word as a silent no-op: the program counter
\* advances by 2 and no other register, no flag and no memory byte changes.
C31_NoOpWhileFlagClear ==
    FlagWasClear =>
        /\ regs_[15] = NextInsn
        /\ LowRegsKept
        /\ cpsr_ = last.pre.cpsr_
        /\ mmu_ = last.pre.mmu_

\* C31 as the code has it: once an exchange has cleared the width-mode flag,
\* every later step keeps fetching and executes the fetched word exactly as it
\* does with the flag set: registers, N, Z, C, V and memory after the step are
\* those the same step gives from the same state with the flag set, and the
\* flag stays clear unless the step is itself an exchange.
C31_FlagIgnoredByStep ==
    FlagWasClear =>
        /\ regs_ = WithFlagSet.regs_
        /\ mmu_ = WithFlagSet.mmu_
        /\ NZCV(cpsr_) = NZCV(WithFlagSet.cpsr_)
        /\ (IsExchange(last.insn) \/ ~FlagT(cpsr_))

\* BX r1 to an even address cleared the flag, and the next step, started with
\* the flag clear, executed MOV r0,#3 there: r0 changed from 0x80000000 to 3
\* and N was cleared
C31_Witness ==
    /\ FlagWasClear
    /\ last.before.op = "step" /\ IsBx(last.before.insn)
    /\ IsMovImm8(last.insn) /\ last.addr = DataBase
    /\ last.pre.regs_[0] = W(32768, 0) /\ regs_[0] = W(0, 3)
    /\ ~FlagT(cpsr_)

----------------------------------------------------------------------------
(* C32: byte store and byte load *)

\* Rb + imm5
ByteEA(insn, r) == Add32(r[Rs3(insn)], U32((insn \div 64) % 32))
\* the byte address of the step's instruction and the low 8 bits of its Rd
ByteAddr == ByteEA(last.insn, last.pre.regs_)
LowByte == last.pre.regs_[Rd0(last.insn)].lo % 256
\* a is a byte of the display status register, of the line counter
InDispstat(a) == a.hi = 1024 /\ a.lo \in {4, 5}
InVcount(a) == a.hi = 1024 /\ a.lo \in {6, 7}
\* a byte written at a is kept as written: a writable store or a plain I/O byte
KeepsByte(a) == InWritableStore(a) \/ (InIo(a) /\ ~InDispstat(a) /\ ~InVcount(a))
\* bytes around a: its aligned word and the words next to it, the 1 KiB and
\* video memory images of a, and the program
ByteProbes(a) ==
    {Add32(AlignedOf(a), U32(k)) : k \in 0..7}
    \cup {Sub32(AlignedOf(a), U32(k)) : k \in 1..4}
    \cup {Add32(a, U32(1024)), Add32(a, U32(98304)), CodeBase, Add32(CodeBase, U32(2))}
Unchanged(b) == read8(mmu_, b) = read8(last.pre.mmu_, b)

\* C32 as stated: STRB Rd,[Rb,#imm5] writes the low 8 bits of Rd to the byte
\* at Rb + imm5 and changes no other byte, in the containing word or anywhere
\* else; LDRB Rd,[Rb,#imm5] puts the byte at Rb + imm5 in Rd, zero-extended.
C32_ByteStoreChangesOneAddress ==
    /\ (Stepped /\ IsStrB(last.insn)) =>
          /\ read8(mmu_, ByteAddr) = LowByte
          /\ \A b \in ByteProbes(ByteAddr) \ {ByteAddr} : Unchanged(b)
    /\ (Stepped /\ IsLdrB(last.insn)) =>
          regs_[Rd0(last.insn)] = W(0, read8(last.pre.mmu_, ByteAddr))

\* C32 where it holds: a byte store to memory that keeps writes leaves the low
\* 8 bits of Rd in the byte at Rb + imm5, read at that address and at its
\* mirror images, and changes no other byte; a byte store to the firmware
\* region, the cartridge, unmapped space or the line counter changes nothing;
\* a byte store to the display status register changes no byte outside that
\* register; and a byte load puts the byte read at Rb + imm5 in Rd with bits
\* 31..8 zero.
C32_ByteStoreChangesOneCell ==
    /\ (Stepped /\ IsStrB(last.insn)) =>
          \A b \in ByteProbes(ByteAddr) :
              IF KeepsByte(ByteAddr)
              THEN IF SameCell(ByteAddr, b) THEN read8(mmu_, b) = LowByte
                   ELSE Unchanged(b)
              ELSE (InDispstat(ByteAddr) /\ InDispstat(b)) \/ Unchanged(b)
    /\ (Stepped /\ IsLdrB(last.insn)) =>
          /\ regs_[Rd0(last.insn)] = W(0, read8(last.pre.mmu_, ByteAddr))
          /\ regs_[Rd0(last.insn)].hi = 0 /\ regs_[Rd0(last.insn)].lo < 256

\* the test's case: the word at the data base was primed with 0x11223344, r0
\* was 0xFFFFFF45; STRB r0,[r1,#3] made the word 0x45223344 and the LDRB of
\* the next step put 0x45 in r2
C32_Witness ==
    /\ Stepped /\ IsLdrB(last.insn) /\ ByteAddr = Add32(DataBase, U32(3))
    /\ last.before.op = "step" /\ IsStrB(last.before.insn)
    /\ ByteEA(last.before.insn, last.before.regs_) = ByteAddr
    /\ last.before.regs_[0] = W(65535, 65349)
    /\ WordNow(DataBase) = W(17698, 13124)
    /\ regs_[2] = W(0, 69)

----------------------------------------------------------------------------
(* C33, C34, C40: the display status register and the line counter *)

\* what a read of VCOUNT and of DISPSTAT returns in memory state m
Vcount(m) == read16(m, VcountAddr)
Dispstat(m) == read16(m, DispstatAddr)
\* bit n of a halfword
HasBit(x, n) == (x \div Pow2(n)) % 2 = 1
\* the last write covered a byte of the line counter
CoversVcount ==
    \E j \in 0..(WidthOfWrite - 1) : InVcount(Target(j))

\* C33: VCOUNT is read-only from the bus: a bus write of any width, covering
\* its bytes or not, leaves both bytes of VCOUNT as they read before, the
\* HBlank hook leaves them too, the line hook makes VCOUNT read the line it
\* was given, and reset makes it read 0; so after any sequence of bus writes
\* VCOUNT reads the value the hook set last.
C33_VcountReadOnly ==
    /\ (WroteAny \/ Wrote("set_hblank")) =>
          /\ Vcount(mmu_) = Vcount(last.pre.mmu_)
          /\ \A j \in 0..1 : read8(mmu_, Add32(VcountAddr, U32(j)))
                               = read8(last.pre.mmu_, Add32(VcountAddr, U32(j)))
    /\ Wrote("set_vcount") => Vcount(mmu_) = last.value.lo
    /\ Wrote("bus_reset") => Vcount(mmu_) = 0

\* the hook set line 227, then a halfword write of 0xFFFF at VCOUNT was
\* ignored
C33_Witness ==
    /\ Wrote("write16") /\ last.addr = VcountAddr /\ last.value.lo = 65535
    /\ last.before.op = "set_vcount"
    /\ Vcount(mmu_) = 227

\* the stored value of DISPSTAT (the writable bits kept between writes)
Stored(m) == m.io_.dispstat_shadow_
\* the HBlank state the system hook set
HBlank(m) == m.io_.hblank_
\* the last call wrote the whole of DISPSTAT, or its high byte
WroteDispstat == Wrote("write16") /\ last.addr = DispstatAddr
WroteLyc == Wrote("write8") /\ last.addr = Add32(DispstatAddr, U32(1))

\* C34: in every reachable state a read of DISPSTAT has bit 0 set iff
\* VCOUNT >= 160, bit 1 set iff the HBlank state is true and bit 2 set iff
\* VCOUNT equals the LYC field, which is bits 15..8 of the value last written
\* to DISPSTAT; bits 3..5 and 15..8 of the read are those of the stored value,
\* bits 6..7 read 0; a bus write leaves bits 0..2 (and 6..7) of the stored
\* value as they were.
C34_DispstatFlagsAreLive ==
    /\ HasBit(Dispstat(mmu_), 0) <=> Vcount(mmu_) >= 160
    /\ HasBit(Dispstat(mmu_), 1) <=> HBlank(mmu_)
    /\ HasBit(Dispstat(mmu_), 2) <=> Vcount(mmu_) = Dispstat(mmu_) \div 256
    /\ Dispstat(mmu_) \div 256 = Stored(mmu_) \div 256
    /\ (Dispstat(mmu_) \div 8) % 8 = (Stored(mmu_) \div 8) % 8
    /\ (Dispstat(mmu_) \div 64) % 4 = 0
    /\ WroteDispstat =>
          /\ Dispstat(mmu_) \div 256 = last.value.lo \div 256
          /\ (Dispstat(mmu_) \div 8) % 8 = (last.value.lo \div 8) % 8
    /\ WroteLyc => Dispstat(mmu_) \div 256 = last.value.lo
    /\ WroteAny =>
          /\ Stored(mmu_) % 8 = Stored(last.pre.mmu_) % 8
          /\ (Stored(mmu_) \div 64) % 4 = (Stored(last.pre.mmu_) \div 64) % 4
          /\ HasBit(Dispstat(mmu_), 0) <=> HasBit(Dispstat(last.pre.mmu_), 0)
          /\ HasBit(Dispstat(mmu_), 1) <=> HasBit(Dispstat(last.pre.mmu_), 1)

\* line 160 with LYC 160 written last, HBlank set: a halfword write of 0xA000
\* over a stored 0xFF38 leaves a read of 0xA007, all three flags set and none
\* of them written
C34_Witness ==
    /\ WroteDispstat /\ last.value.lo = 40960
    /\ Stored(last.pre.mmu_) = 65336
    /\ Vcount(mmu_) = 160 /\ HBlank(mmu_)
    /\ Dispstat(mmu_) = 40967

\* the I/O bytes compared after a reset: the display registers, their
\* neighbours and the last byte of the window
IoProbes == {Add32(IO_BASE, U32(k)) : k \in 0..9} \cup {Add32(IO_BASE, U32(1023))}

\* C40: right after reset(), whatever was written to DISPSTAT and whatever
\* HBlank state and line were set before, every I/O byte reads what it reads
\* on a freshly constructed instance.
C40_ResetForgetsIoState ==
    Wrote("bus_reset") =>
        \A b \in IoProbes : read8(mmu_, b) = read8(MMU_constructed, b)

----------------------------------------------------------------------------
(* C35: which words are pushes and pops *)

IsPushWord(insn) == Top(insn, 7) = 90     \* 1011010
IsPopWord(insn) == Top(insn, 7) = 94      \* 1011110

\* C35: a step runs the push routine exactly for the words whose top seven
\* bits are 1011010 and the pop routine exactly for the words whose top seven
\* bits are 1011110; no other word is executed as a push or a pop.
C35_PushPopDecode ==
    Stepped =>
        /\ RunsPush(last.insn) <=> IsPushWord(last.insn)
        /\ RunsPop(last.insn) <=> IsPopWord(last.insn)

----------------------------------------------------------------------------
(* C36: every access stays inside its array *)

\* the addresses an access of any width at a touches: a .. a+3 (mod 2^32)
Lanes(a) == {Add32(a, U32(j)) : j \in 0..3}
\* the addresses looked at: the edges of the regions and whatever the
\* registers the fixture's words use as addresses now hold
SafeProbes == EdgeAddrs \cup {regs_[7], regs_[13], regs_[15]}
\* the access at a indexes nothing, or an index inside the array
InBounds(a) ==
    LET x == backing_index(mmu_, a)
    IN  x.store # "none" => x.size > 0 /\ x.index \in 0..(x.size - 1)

\* C36: for every address, every access width and every cartridge length,
\* the empty one included, the memory subsystem indexes an array only inside
\* its bounds and never reduces modulo zero; every step indexes the register
\* file only with 0..15; and with an empty cartridge every read in the three
\* cartridge windows returns the open-bus byte in every lane.
C36_AccessesStayInBounds ==
    /\ \A a \in SafeProbes : \A b \in Lanes(a) : InBounds(b)
    /\ Stepped => reg_indices(last.insn) \subseteq 0..15
    /\ Len(mmu_.gamepak_) = 0 =>
          \A a \in SafeProbes \cup CartAddrs : \A b \in Lanes(a) :
              (InCart(b) => read8(mmu_, b) = kOpenBus)
                 /\ (InCart(a) /\ InCart(Add32(a, U32(3))) => ReadsOpenBus(a))

\* with a three-byte cartridge, LDRB r7,[r7,#31] at the start of the first
\* window read index 31 mod 3 = 1 of the image: the byte 2
C36_Witness ==
    /\ Stepped /\ last.insn = 32767
    /\ Len(mmu_.gamepak_) = 3
    /\ last.pre.regs_[7] = WS0_BASE
    /\ backing_index(mmu_, ByteAddr) = [store |-> "gamepak_", index |-> 1, size |-> 3]
    /\ regs_[7] = W(0, 2)

----------------------------------------------------------------------------
(* C37: the bits of the status word *)

\* the status word has no bit other than N (31), Z (30), C (29), V (28), T (5)
OnlyFlagBits(cpsr) == cpsr.hi % 4096 = 0 /\ cpsr.lo \in {0, 32}

----------------------------------------------------------------------------
(* C38: a push and the pop that undoes it *)

\* the instruction changes r0..r7 and the flags only
ChangesLowRegs(insn) == IsMovImm8(insn) \/ IsAdd(insn) \/ IsSub(insn)
\* the last three calls were steps: a push, a change of the low registers
\* that left the stack pointer alone, and a pop with the push's list
PushChangePop ==
    /\ Stepped /\ RunsPop(last.insn)
    /\ last.before.op = "step" /\ ChangesLowRegs(last.before.insn)
    /\ last.earlier.op = "step" /\ RunsPush(last.earlier.insn)
    /\ ListOf(last.insn) = ListOf(last.earlier.insn)
    /\ last.pre.regs_[13] = last.before.regs_[13]
\* the stack pointer before the push, and the words the push stored
SPAtPush == last.earlier.regs_[13]
Pushed == WordsOf(last.earlier.insn)
\* [SP - 4n, SP) lies in external or in internal work RAM
StackInWorkRam ==
    LET lo == Sub32(SPAtPush, U32(4 * Pushed))
        hi == Sub32(SPAtPush, U32(1))
    IN  \/ Pushed = 0
        \/ Ult(lo, SPAtPush) /\ InEwram(lo) /\ InEwram(hi)
        \/ Ult(lo, SPAtPush) /\ InIwram(lo) /\ InIwram(hi)
\* every register of the list and the stack pointer are as before the push
Restored ==
    /\ \A i \in ListOf(last.insn) : regs_[i] = last.earlier.regs_[i]
    /\ regs_[13] = SPAtPush
\* the pop has the return-address slot exactly when the push had the link
\* register
SlotsMatch == ExtraSlot(last.insn) <=> ExtraSlot(last.earlier.insn)

\* C38 as stated: with [SP - 4n, SP) in work RAM, a push with list L, with or
\* without the link register, then changes of r0..r7, then a pop with the
\* same list L restore every register of L and the stack pointer.
C38_PopUndoesPush ==
    (PushChangePop /\ StackInWorkRam) => Restored

\* C38 with the extra slots paired: the same, for a pop that has the
\* return-address slot exactly when the push had the link register; the
\* program counter then takes the pushed link register's value without its
\* low bit or bits.
C38_PopUndoesMatchingPush ==
    (PushChangePop /\ StackInWorkRam /\ SlotsMatch) =>
        /\ Restored
        /\ ExtraSlot(last.insn) =>
              LET lr == last.earlier.regs_[14]
              IN  regs_[15] = IF Bit0(lr) THEN ClearBit0(lr) ELSE AlignedOf(lr)

\* PUSH {r0, r1, lr} below the end of internal work RAM, MOV r0,#0, then
\* POP {r0, r1, pc}: r0 is 0x11223344 again, r13 is 0x03008000 again and the
\* program counter is the link register's 0x03000021 without bit 0
C38_Witness ==
    /\ PushChangePop /\ StackInWorkRam /\ SlotsMatch
    /\ last.earlier.insn = 46339 /\ last.insn = 46851
    /\ last.before.insn = Thumb_MOV_imm(0, 0)
    /\ last.pre.regs_[0] = Zero32
    /\ regs_[0] = W(4386, 13124) /\ regs_[1] = W(43707, 52445)
    /\ regs_[13] = W(768, 32768)
    /\ regs_[15] = Add32(CodeBase, U32(32))

----------------------------------------------------------------------------
(* C39: the program counter of instructions that do not write it *)

\* the word is of a kind that can write r15: B, a conditional branch, BX, a
\* pop with the return-address slot, high-register ADD or MOV into r15
MayWritePC(insn) ==
    \/ IsB(insn) \/ IsBcond(insn) \/ IsBx(insn)
    \/ (RunsPop(insn) /\ ExtraSlot(insn))
    \/ ((IsAddHigh(insn) \/ IsMovHigh(insn)) /\ HighDest(insn) = 15)
\* the step's instruction writes r15: the same, a conditional branch only
\* when its condition holds on the flags the step started with
WritesPC ==
    /\ MayWritePC(last.insn)
    /\ IsBcond(last.insn) => Holds(CondOf(last.insn), last.pre.cpsr_)

\* C39: every step fetches the 16-bit word at the program counter it starts
\* with; after a step whose instruction does not write r15 the program
\* counter is the fetch address + 2 (mod 2^32), so two and three such steps
\* in a row from A end at A + 4 and A + 6.
C39_SequentialProgramCounter ==
    /\ Stepped =>
          /\ last.addr = last.pre.regs_[15]
          /\ last.insn = read16(last.pre.mmu_, last.addr)
    /\ (Stepped /\ ~WritesPC) => regs_[15] = NextInsn
    /\ (Stepped /\ ~WritesPC /\ last.before.op = "step" /\ ~MayWritePC(last.before.insn)) =>
          regs_[15] = Add32(last.before.regs_[15], U32(4))
    /\ (Stepped /\ ~WritesPC /\ last.before.op = "step" /\ ~MayWritePC(last.before.insn)
          /\ last.earlier.op = "step" /\ ~MayWritePC(last.earlier.insn)) =>
          regs_[15] = Add32(last.earlier.regs_[15], U32(6))

\* three steps from the code base, MOV r0,#3, ADD r0,#1 and the zero word
\* after them, end at the code base + 6
C39_Witness ==
    /\ Stepped /\ last.insn = 0 /\ ~WritesPC
    /\ last.before.op = "step" /\ last.before.insn = Thumb_ADD_imm(0, 1)
    /\ last.earlier.op = "step" /\ last.earlier.insn = Thumb_MOV_imm(0, 3)
    /\ last.earlier.regs_[15] = CodeBase
    /\ regs_[15] = Add32(CodeBase, U32(6))

============================================================================
